---- MODULE Spec2Model ----
(***************************************************************************)
(* Bank-statement reconciliation engine of vlm_server: the v3 statement    *)
(* parser (bank_parser_v3.py), the balance-driven table parser             *)
(* (bank_table_parser_v3.py), the unified extractor with its validation    *)
(* and repair pass (services/vlm/unified_bank_extractor.py) and the        *)
(* post-processor (bank_statement_post_processor.py).                      *)
(*                                                                         *)
(* Text is a sequence of one-character strings, a line of text is such a   *)
(* sequence and a block of text is a sequence of lines (str.split on the   *)
(* newline).  Amounts are integers counting cents: every amount token of   *)
(* the inputs has at most two fractional digits, so float(), round(x, 2)   *)
(* and the ".2f" format are exact on them; the tolerance 0.01 is 1 cent.   *)
(***************************************************************************)
EXTENDS Integers, Sequences, FiniteSets, TLC

----------------------------------------------------------------------------
(* str methods and the re patterns of the parsers, character by character  *)

DigitChars == <<"0","1","2","3","4","5","6","7","8","9">>
UpperChars == <<"A","B","C","D","E","F","G","H","I","J","K","L","M","N","O","P","Q","R","S","T","U","V","W","X","Y","Z">>
LowerChars == <<"a","b","c","d","e","f","g","h","i","j","k","l","m","n","o","p","q","r","s","t","u","v","w","x","y","z">>
Whitespace == {" ", "\t"}

isdigit(c) == \E d \in 1..10 : DigitChars[d] = c
digit(c) == (CHOOSE d \in 1..10 : DigitChars[d] = c) - 1

lower_char(c) ==
  IF \E i \in 1..26 : UpperChars[i] = c
  THEN LowerChars[CHOOSE i \in 1..26 : UpperChars[i] = c]
  ELSE c

upper_char(c) ==
  IF \E i \in 1..26 : LowerChars[i] = c
  THEN UpperChars[CHOOSE i \in 1..26 : LowerChars[i] = c]
  ELSE c

lower(s) == [i \in 1..Len(s) |-> lower_char(s[i])]
upper(s) == [i \in 1..Len(s) |-> upper_char(s[i])]

\* k in s
contains(s, k) == \E i \in 0..(Len(s) - Len(k)) : SubSeq(s, i + 1, i + Len(k)) = k

startswith(s, k) == Len(s) >= Len(k) /\ SubSeq(s, 1, Len(k)) = k

RECURSIVE lstrip(_, _)
lstrip(s, chars) ==
  IF s # <<>> /\ s[1] \in chars THEN lstrip(Tail(s), chars) ELSE s

RECURSIVE rstrip(_, _)
rstrip(s, chars) ==
  IF s # <<>> /\ s[Len(s)] \in chars THEN rstrip(SubSeq(s, 1, Len(s) - 1), chars) ELSE s

strip(s) == rstrip(lstrip(s, Whitespace), Whitespace)
strip_chars(s, chars) == rstrip(lstrip(s, chars), chars)

RECURSIVE split(_, _)
split(s, sep) ==
  IF \A i \in 1..Len(s) : s[i] # sep
  THEN <<s>>
  ELSE LET p == CHOOSE i \in 1..Len(s) : s[i] = sep /\ \A j \in 1..(i - 1) : s[j] # sep
       IN  <<SubSeq(s, 1, p - 1)>> \o split(SubSeq(s, p + 1, Len(s)), sep)

\* str.replace(c, ''): every occurrence of the character removed
RECURSIVE remove_chars(_, _)
remove_chars(s, chars) ==
  IF s = <<>> THEN <<>>
  ELSE (IF s[1] \in chars THEN <<>> ELSE <<s[1]>>) \o remove_chars(Tail(s), chars)

\* number of leading digit characters of s from position p on
RECURSIVE digit_run(_, _)
digit_run(s, p) ==
  IF p <= Len(s) /\ isdigit(s[p]) THEN 1 + digit_run(s, p + 1) ELSE 0

RECURSIVE int_value(_)
int_value(ds) ==
  IF ds = <<>> THEN 0 ELSE int_value(SubSeq(ds, 1, Len(ds) - 1)) * 10 + digit(ds[Len(ds)])

\* float(s) in cents: [sign] digits [. digits], at least one digit, nothing
\* else; ok = FALSE is the ValueError.
float(s0) ==
  LET value(negative, ip, fp) ==
        IF Len(ip) + Len(fp) >= 1 /\ \A i \in 1..Len(ip \o fp) : isdigit((ip \o fp)[i])
        THEN [ok |-> TRUE,
              val |-> (IF negative THEN 0 - 1 ELSE 1)
                      * (int_value(ip) * 100
                         + (IF Len(fp) >= 1 THEN 10 * digit(fp[1]) ELSE 0)
                         + (IF Len(fp) >= 2 THEN digit(fp[2]) ELSE 0))]
        ELSE [ok |-> FALSE, val |-> 0]
      unsigned(negative, f) ==
        IF Len(f) > 2 THEN [ok |-> FALSE, val |-> 0]
        ELSE value(negative, f[1], IF Len(f) = 2 THEN f[2] ELSE <<>>)
      stripped(s) ==
        IF s # <<>> /\ s[1] \in {"-", "+"}
        THEN unsigned(s[1] = "-", split(Tail(s), "."))
        ELSE unsigned(FALSE, split(s, "."))
  IN  stripped(strip(s0))

abs(x) == IF x < 0 THEN 0 - x ELSE x

RECURSIVE digits_of(_)
digits_of(n) ==
  IF n < 10 THEN <<DigitChars[n + 1]>> ELSE digits_of(n \div 10) \o <<DigitChars[(n % 10) + 1]>>

RECURSIVE group_thousands(_)
group_thousands(ds) ==
  IF Len(ds) <= 3 THEN ds
  ELSE group_thousands(SubSeq(ds, 1, Len(ds) - 3)) \o <<",">> \o SubSeq(ds, Len(ds) - 2, Len(ds))

\* f"{x:,.2f}"
format_comma_2f(x) ==
  LET m == abs(x)
  IN  (IF x < 0 THEN <<"-">> ELSE <<>>)
      \o group_thousands(digits_of(m \div 100))
      \o <<".", DigitChars[((m % 100) \div 10) + 1], DigitChars[(m % 10) + 1]>>

\* f"{x:.2f}"
format_2f(x) ==
  LET m == abs(x)
  IN  (IF x < 0 THEN <<"-">> ELSE <<>>)
      \o digits_of(m \div 100)
      \o <<".", DigitChars[((m % 100) \div 10) + 1], DigitChars[(m % 10) + 1]>>

pad2(n) == <<DigitChars[(n \div 10) + 1], DigitChars[(n % 10) + 1]>>
pad4(n) == pad2(n \div 100) \o pad2(n % 100)

----------------------------------------------------------------------------
(* re.search(r'\d{1,2}[/\-]\d{1,2}[/\-]\d{2,4}', line)                     *)

DateSep == {"/", "-"}

\* end position of the match that starts at p, 0 when none starts there
date_match_at(s, p) ==
  LET \* length taken by \d{1,2} at q, a separator following, out of run digits
      field(q, run) ==
        IF run >= 2 /\ q + 2 <= Len(s) /\ s[q + 2] \in DateSep THEN 2
        ELSE IF run >= 1 /\ q + 1 <= Len(s) /\ s[q + 1] \in DateSep THEN 1
        ELSE 0
      year(r, c) == IF c >= 2 THEN r + (IF c > 4 THEN 4 ELSE c) - 1 ELSE 0
      second(q, lb) == IF lb = 0 THEN 0 ELSE year(q + lb + 1, digit_run(s, q + lb + 1))
      first(la) ==
        IF la = 0 THEN 0 ELSE second(p + la + 1, field(p + la + 1, digit_run(s, p + la + 1)))
  IN  first(field(p, digit_run(s, p)))

\* [start, end] of the leftmost match from position p on, start = 0 when
\* there is none
RECURSIVE date_search_from(_, _)
date_search_from(s, p) ==
  LET found(e) == IF e > 0 THEN [start |-> p, end |-> e] ELSE date_search_from(s, p + 1)
  IN  IF p > Len(s) THEN [start |-> 0, end |-> 0] ELSE found(date_match_at(s, p))

date_search(s) == date_search_from(s, 1)

----------------------------------------------------------------------------
(* re.finditer(r'[-+]?\$?[\d,]+\.?\d*', remaining)                         *)

RECURSIVE numchar_run(_, _)
numchar_run(s, p) ==
  IF p <= Len(s) /\ (isdigit(s[p]) \/ s[p] = ",") THEN 1 + numchar_run(s, p + 1) ELSE 0

\* the match starting at p with sg sign characters and dl dollar signs
num_match_with(s, p, sg, dl) ==
  LET fraction(e) == e + digit_run(s, e) - 1
      point(d) == fraction(IF d <= Len(s) /\ s[d] = "." THEN d + 1 ELSE d)
      digits(q, n) == IF n = 0 THEN 0 ELSE point(q + n)
  IN  digits(p + sg + dl, numchar_run(s, p + sg + dl))

num_match_at(s, p) ==
  LET sg == IF p <= Len(s) /\ s[p] \in {"-", "+"} THEN 1 ELSE 0
      dl == IF p + sg <= Len(s) /\ s[p + sg] = "$" THEN 1 ELSE 0
  IN  num_match_with(s, p, sg, dl)

\* the matched substrings, left to right, non overlapping, with their starts
RECURSIVE num_finditer(_, _)
num_finditer(s, p) ==
  LET found(e) ==
        IF e = 0 THEN num_finditer(s, p + 1)
        ELSE <<[start |-> p, text |-> SubSeq(s, p, e)]>> \o num_finditer(s, e + 1)
  IN  IF p > Len(s) THEN <<>> ELSE found(num_match_at(s, p))

----------------------------------------------------------------------------
(* BankTransaction and BankStatement (bank_parser_v3.py)                   *)

is_leap(y) == (y % 4 = 0 /\ y % 100 # 0) \/ y % 400 = 0

days_in_month(m, y) ==
  IF m = 2 THEN (IF is_leap(y) THEN 29 ELSE 28)
  ELSE IF m \in {4, 6, 9, 11} THEN 30 ELSE 31

\* The eight formats of validate_date in the order they are tried: the
\* separator, the position of month, day and year among the three fields
\* and the number of year digits (%Y four, %y two).
date_formats ==
  << [sep |-> "/", m |-> 1, d |-> 2, y |-> 3, ylen |-> 4],
     [sep |-> "/", m |-> 2, d |-> 1, y |-> 3, ylen |-> 4],
     [sep |-> "-", m |-> 2, d |-> 3, y |-> 1, ylen |-> 4],
     [sep |-> "-", m |-> 1, d |-> 2, y |-> 3, ylen |-> 4],
     [sep |-> "-", m |-> 2, d |-> 1, y |-> 3, ylen |-> 4],
     [sep |-> "/", m |-> 2, d |-> 3, y |-> 1, ylen |-> 4],
     [sep |-> "/", m |-> 1, d |-> 2, y |-> 3, ylen |-> 2],
     [sep |-> "/", m |-> 2, d |-> 1, y |-> 3, ylen |-> 2] >>

\* datetime.strptime(v, fmt): ok = FALSE is the ValueError
strptime(v, fmt) ==
  LET date(mo, dy, yr) ==
        [ok |-> mo \in 1..12 /\ yr >= 1 /\ dy >= 1 /\ dy <= days_in_month(mo, yr),
         month |-> mo, day |-> dy, year |-> yr]
      century(yy) ==
        IF fmt.ylen = 4 THEN yy ELSE IF yy < 69 THEN 2000 + yy ELSE 1900 + yy
      fields(f) ==
        IF /\ Len(f) = 3
           /\ \A i \in 1..3 : f[i] # <<>> /\ \A j \in 1..Len(f[i]) : isdigit(f[i][j])
           /\ Len(f[fmt.m]) <= 2 /\ Len(f[fmt.d]) <= 2 /\ Len(f[fmt.y]) = fmt.ylen
        THEN date(int_value(f[fmt.m]), int_value(f[fmt.d]), century(int_value(f[fmt.y])))
        ELSE [ok |-> FALSE, month |-> 0, day |-> 0, year |-> 0]
  IN  fields(split(v, fmt.sep))

RECURSIVE try_date_formats(_, _)
try_date_formats(v, k) ==
  LET parsed(r) ==
        IF r.ok THEN pad2(r.month) \o <<"/">> \o pad2(r.day) \o <<"/">> \o pad4(r.year)
        ELSE try_date_formats(v, k + 1)
  IN  IF k > Len(date_formats) THEN v ELSE parsed(strptime(strip(v), date_formats[k]))

validate_date(v) == IF v = <<>> THEN <<>> ELSE try_date_formats(v, 1)

validate_amounts(v) == abs(v)

\* BankTransaction(**trans_data): the validators applied to the fields
BankTransaction(date, description, debit, credit, balance) ==
  [date |-> validate_date(date), description |-> description,
   debit |-> validate_amounts(debit), credit |-> validate_amounts(credit),
   balance |-> validate_amounts(balance)]

RECURSIVE sum_field(_, _)
sum_field(ts, f) == IF ts = <<>> THEN 0 ELSE ts[1][f] + sum_field(Tail(ts), f)

\* BankStatement(transactions=...): totals and balances at their defaults
BankStatement(transactions) ==
  [transactions |-> transactions, total_debits |-> 0, total_credits |-> 0,
   opening_balance |-> 0, closing_balance |-> 0]

calculate_totals(st) ==
  [st EXCEPT !.total_debits = sum_field(st.transactions, "debit"),
             !.total_credits = sum_field(st.transactions, "credit")]

----------------------------------------------------------------------------
(* BankStatementParser (bank_parser_v3.py)                                 *)

k_pipe == <<"|">>
k_date == <<"d","a","t","e">>
k_description == <<"d","e","s","c","r","i","p","t","i","o","n">>
k_transaction == <<"t","r","a","n","s","a","c","t","i","o","n">>
k_debit == <<"d","e","b","i","t">>
k_withdrawal == <<"w","i","t","h","d","r","a","w","a","l">>
k_deposits == <<"d","e","p","o","s","i","t","s">>
k_credit == <<"c","r","e","d","i","t">>
k_deposit == <<"d","e","p","o","s","i","t">>
k_balance == <<"b","a","l","a","n","c","e">>
k_ref == <<"r","e","f">>
k_payroll == <<"p","a","y","r","o","l","l">>
k_salary == <<"s","a","l","a","r","y">>
k_income == <<"i","n","c","o","m","e">>

\* the places where a transaction or None is returned hold a sequence of
\* at most one transaction
None == <<>>

stripped_parts(line) ==
  LET stripped(raw) == [i \in 1..Len(raw) |-> strip(raw[i])] IN stripped(split(line, "|"))

is_header_line(line) ==
  LET names(line_lower) ==
        /\ contains(line_lower, k_date)
        /\ (contains(line_lower, k_description) \/ contains(line_lower, k_transaction))
        /\ (contains(line_lower, k_debit) \/ contains(line_lower, k_withdrawal)
            \/ contains(line_lower, k_deposits))
  IN  names(lower(line))

\* Python index of the first header line from line i on, -1 when there is
\* none
RECURSIVE find_header_from(_, _)
find_header_from(lines, i) ==
  IF i > Len(lines) THEN 0 - 1
  ELSE IF is_header_line(lines[i]) THEN i - 1
  ELSE find_header_from(lines, i + 1)

find_header_idx(lines) == find_header_from(lines, 1)

header_field(part_lower) ==
  IF contains(part_lower, k_date) THEN "date"
  ELSE IF contains(part_lower, k_description) \/ contains(part_lower, k_transaction) THEN "description"
  ELSE IF contains(part_lower, k_debit) \/ contains(part_lower, k_withdrawal) THEN "debit"
  ELSE IF contains(part_lower, k_credit) \/ contains(part_lower, k_deposit) THEN "credit"
  ELSE IF contains(part_lower, k_balance) THEN "balance"
  ELSE IF contains(part_lower, k_ref) THEN "ref"
  ELSE "none"

\* field -> Python index of its column; a later column of the same field
\* overwrites an earlier one.  The empty mapping also stands for None: the
\* only use of the mapping's absence is "not column_map".
_analyze_header(header) ==
  LET columns(fieldof) ==
        [f \in {fieldof[i] : i \in 1..Len(fieldof)} \ {"none"} |->
           (CHOOSE i \in 1..Len(fieldof) :
               fieldof[i] = f /\ \A j \in 1..Len(fieldof) : fieldof[j] = f => j <= i) - 1]
      fields(parts) == columns([i \in 1..Len(parts) |-> header_field(lower(parts[i]))])
  IN  IF ~contains(header, k_pipe) THEN [f \in {} |-> 0] ELSE fields(stripped_parts(header))

column_map_of(lines) ==
  LET analyzed(h) == IF h >= 0 THEN _analyze_header(lines[h + 1]) ELSE [f \in {} |-> 0]
  IN  analyzed(find_header_idx(lines))

\* re.sub(r'[^\d.,\-]', '', value)
keep_numeric(value) ==
  remove_chars(value, {value[i] : i \in 1..Len(value)}
                        \ ({DigitChars[d] : d \in 1..10} \cup {".", ",", "-"}))

\* the value a debit, credit or balance cell contributes, 0 when it is
\* empty, a lone '-' or not a number
pipe_amount(value) ==
  LET parsed(f) == IF f.ok THEN abs(f.val) ELSE 0
      amount(num_str) ==
        IF num_str # <<>> /\ num_str # <<"-">>
        THEN parsed(float(remove_chars(num_str, {","}))) ELSE 0
  IN  amount(keep_numeric(value))

pipe_cell(parts, column_map, field) ==
  IF field \in DOMAIN column_map /\ column_map[field] < Len(parts)
  THEN strip(parts[column_map[field] + 1]) ELSE <<>>

_parse_pipe_delimited_line(line, column_map) ==
  LET created(date, description, debit, credit, balance, moved) ==
        <<BankTransaction(date, description,
                          IF moved THEN 0 ELSE debit,
                          IF moved THEN debit ELSE credit,
                          balance)>>
      is_deposit(desc_lower) ==
        contains(desc_lower, k_deposit) \/ contains(desc_lower, k_payroll)
      trans_data(date, description, debit, credit, balance) ==
        IF date # <<>> /\ description # <<>>
        THEN created(date, description, debit, credit, balance,
                     is_deposit(lower(description)) /\ debit > 0 /\ credit = 0)
        ELSE None
      row(parts) ==
        IF DOMAIN column_map = {} \/ Len(parts) < 3 THEN None
        ELSE trans_data(pipe_cell(parts, column_map, "date"),
                        pipe_cell(parts, column_map, "description"),
                        pipe_amount(pipe_cell(parts, column_map, "debit")),
                        pipe_amount(pipe_cell(parts, column_map, "credit")),
                        pipe_amount(pipe_cell(parts, column_map, "balance")))
  IN  row(stripped_parts(line))

\* the floats of the matches, the ones float() rejects left out
RECURSIVE match_amounts(_)
match_amounts(ms) ==
  LET appended(f) == (IF f.ok THEN <<f.val>> ELSE <<>>) \o match_amounts(Tail(ms))
  IN  IF ms = <<>> THEN <<>> ELSE appended(float(remove_chars(ms[1].text, {"$", ","})))

_parse_space_delimited_line(line) ==
  LET created(date, description, amounts, credit_kw) ==
        IF description = <<>> THEN None
        ELSE <<BankTransaction(date, description,
                 IF Len(amounts) = 2 THEN (IF credit_kw THEN 0 ELSE abs(amounts[1]))
                 ELSE IF Len(amounts) >= 3 THEN abs(amounts[1]) ELSE 0,
                 IF Len(amounts) = 2 THEN (IF credit_kw THEN abs(amounts[1]) ELSE 0)
                 ELSE IF Len(amounts) >= 3 THEN abs(amounts[2]) ELSE 0,
                 IF amounts = <<>> THEN 0 ELSE abs(amounts[Len(amounts)]))>>
      is_credit(desc_lower) ==
        contains(desc_lower, k_deposit) \/ contains(desc_lower, k_salary)
        \/ contains(desc_lower, k_income) \/ contains(desc_lower, k_payroll)
      described(date, description, amounts) ==
        created(date, strip(strip_chars(description, {"|"})), amounts,
                is_credit(lower(description)))
      numbered(date, remaining, num_matches) ==
        described(date,
                  IF num_matches = <<>> THEN <<>>
                  ELSE strip(SubSeq(remaining, 1, num_matches[1].start - 1)),
                  match_amounts(num_matches))
      rest(date, remaining) == numbered(date, remaining, num_finditer(remaining, 1))
      dated(date_match) ==
        IF date_match.start = 0 THEN None
        ELSE rest(SubSeq(line, date_match.start, date_match.end),
                  strip(SubSeq(line, date_match.end + 1, Len(line))))
  IN  dated(date_search(line))

\* one iteration of the loop over the lines; i is the Python index of line0
parse_table_line(line0, i, header_idx, column_map) ==
  LET appended(trans) ==
        IF trans # None /\ trans[1].description # <<>>
           /\ ~contains(lower(trans[1].description), k_balance)
        THEN trans
        ELSE <<>>
      stripped(line) ==
        IF line = <<>> \/ line[1] = "-" \/ line[1] = "=" THEN <<>>
        ELSE IF date_search(line).start = 0 THEN <<>>
        ELSE IF contains(line, k_pipe)
        THEN appended(_parse_pipe_delimited_line(line, column_map))
        ELSE appended(_parse_space_delimited_line(line))
  IN  IF i <= header_idx + 1 THEN <<>> ELSE stripped(strip(line0))

RECURSIVE parse_table_lines(_, _, _, _)
parse_table_lines(lines, k, header_idx, column_map) ==
  IF k > Len(lines) THEN <<>>
  ELSE parse_table_line(lines[k], k - 1, header_idx, column_map)
       \o parse_table_lines(lines, k + 1, header_idx, column_map)

parse_table_format_v3(lines) ==
  BankStatement(parse_table_lines(lines, 1, find_header_idx(lines), column_map_of(lines)))

\* BankStatement(**data) on the decoded JSON: every transaction goes
\* through the validators, the opening balance is taken as given
statement_from_json(data) ==
  [BankStatement([i \in 1..Len(data.transactions) |->
      BankTransaction(data.transactions[i].date, data.transactions[i].description,
                      data.transactions[i].debit, data.transactions[i].credit,
                      data.transactions[i].balance)])
   EXCEPT !.opening_balance = data.opening_balance]

\* re.search(r'\{.*\}', ai_response, re.DOTALL): a '{' with a '}' after it
json_match(lines) ==
  \E i, j \in 1..Len(lines) :
    \E p \in 1..Len(lines[i]), q \in 1..Len(lines[j]) :
      /\ lines[i][p] = "{" /\ lines[j][q] = "}"
      /\ (i < j \/ (i = j /\ p < q))

\* the stages in another order: the table parse before the '{...}' span
parse_table_first(ai_response) ==
  LET parsed(bank_statement) ==
        IF bank_statement.transactions # <<>>
        THEN calculate_totals(bank_statement)
        ELSE IF json_match(ai_response.lines) /\ ai_response.decodes
        THEN calculate_totals(statement_from_json(ai_response))
        ELSE BankStatement(<<>>)
  IN  IF ai_response.kind = "json"
      THEN calculate_totals(statement_from_json(ai_response))
      ELSE parsed(parse_table_format_v3(ai_response.lines))

\* A response of kind "json" is a JSON document of a statement, which the
\* structured parse (self.parser.parse) decodes; any other response it
\* rejects.  json.loads and BankStatement(**data) on the '{...}' span are the
\* library's: decodes tells whether they accept the span, and transactions
\* and opening_balance are then the decoded data.
parse(ai_response) ==
  LET parsed(bank_statement) ==
        IF bank_statement.transactions # <<>>
        THEN calculate_totals(bank_statement)
        ELSE BankStatement(<<>>)
  IN  IF ai_response.kind = "json"
      THEN calculate_totals(statement_from_json(ai_response))
      ELSE IF json_match(ai_response.lines) /\ ai_response.decodes
      THEN calculate_totals(statement_from_json(ai_response))
      ELSE parsed(parse_table_format_v3(ai_response.lines))

----------------------------------------------------------------------------
(* UnifiedBankExtractor (services/vlm/unified_bank_extractor.py)           *)

k_direct_credit == <<"d","i","r","e","c","t"," ","c","r","e","d","i","t">>
k_transfer_to == <<"t","r","a","n","s","f","e","r"," ","t","o">>

\* the running formula with debit and credit exchanged
RECURSIVE validate_from_signs_exchanged(_, _)
validate_from_signs_exchanged(transactions, i) ==
  IF i > Len(transactions) - 1 THEN <<>>
  ELSE LET prev == transactions[i]
           curr == transactions[i + 1]
           expected_balance == prev.balance - curr.credit + curr.debit
       IN  (IF abs(expected_balance - curr.balance) > 1
            THEN <<[index |-> i, date |-> curr.date,
                    expected |-> expected_balance, got |-> curr.balance]>>
            ELSE <<>>)
           \o validate_from_signs_exchanged(transactions, i + 1)

\* One record per appended message: the message carries the date, the
\* expected and the found balance; index is the loop index i of the append.
RECURSIVE validate_from(_, _)
validate_from(transactions, i) ==
  IF i > Len(transactions) - 1 THEN <<>>
  ELSE LET prev == transactions[i]
           curr == transactions[i + 1]
           expected_balance == prev.balance + curr.credit - curr.debit
       IN  (IF abs(expected_balance - curr.balance) > 1
            THEN <<[index |-> i, date |-> curr.date,
                    expected |-> expected_balance, got |-> curr.balance]>>
            ELSE <<>>)
           \o validate_from(transactions, i + 1)

_validate_balances(transactions) == validate_from(transactions, 1)

swap_indicators_of(trans) ==
  (IF contains(lower(trans.description), k_direct_credit) /\ trans.debit > 0 THEN 1 ELSE 0)
  + (IF contains(lower(trans.description), k_transfer_to) /\ trans.credit > 0 THEN 1 ELSE 0)

RECURSIVE swap_indicators(_)
swap_indicators(ts) ==
  IF ts = <<>> THEN 0 ELSE swap_indicators_of(ts[1]) + swap_indicators(Tail(ts))

\* the threshold reached rather than exceeded
swap_detected_at_threshold(ts) == 10 * swap_indicators(ts) >= 3 * Len(ts)

\* swap_indicators > len(transactions) * 0.3
swap_detected(ts) == 10 * swap_indicators(ts) > 3 * Len(ts)

swap_columns(ts) ==
  [i \in 1..Len(ts) |-> [ts[i] EXCEPT !.debit = ts[i].credit, !.credit = ts[i].debit]]

RECURSIVE recalculate_balances(_, _)
recalculate_balances(ts, running_balance) ==
  IF ts = <<>> THEN <<>>
  ELSE LET b == running_balance + ts[1].credit - ts[1].debit
       IN  <<[ts[1] EXCEPT !.balance = b]>> \o recalculate_balances(Tail(ts), b)

_fix_common_issues(statement, errors) ==
  LET swapped == IF swap_detected(statement.transactions)
                 THEN swap_columns(statement.transactions)
                 ELSE statement.transactions
  IN  [statement EXCEPT
         !.transactions = recalculate_balances(swapped, statement.opening_balance)]

table_header == <<"|"," ","D","a","t","e"," ","|"," ","D","e","s","c","r","i","p","t","i","o","n"," ","|"," ","D","e","b","i","t"," ","|"," ","C","r","e","d","i","t"," ","|"," ","B","a","l","a","n","c","e"," ","|">>
table_rule == <<"|","-","-","-","-","-","-","|","-","-","-","-","-","-","-","-","-","-","-","-","-","|","-","-","-","-","-","-","-","|","-","-","-","-","-","-","-","-","|","-","-","-","-","-","-","-","-","-","|">>

table_row(trans) ==
  LET debit_str == IF trans.debit > 0 THEN format_comma_2f(trans.debit) ELSE <<>>
      credit_str == IF trans.credit > 0 THEN format_comma_2f(trans.credit) ELSE <<>>
      balance_str == format_comma_2f(trans.balance)
  IN  <<"|"," ">> \o trans.date \o <<" ","|"," ">> \o trans.description \o <<" ","|"," ">>
      \o debit_str \o <<" ","|"," ">> \o credit_str \o <<" ","|"," ">> \o balance_str \o <<" ","|">>

\* the lines of the table; joining them with the newline and splitting the
\* text again gives the same lines
_json_to_table(statement) ==
  <<table_header, table_rule>>
  \o [i \in 1..Len(statement.transactions) |-> table_row(statement.transactions[i])]

\* BankStatement.to_csv: the rows the csv writer is given, category column
\* left out
to_csv(statement) ==
  [rows |-> [i \in 1..Len(statement.transactions) |->
               LET trans == statement.transactions[i]
               IN  <<trans.date, trans.description,
                     IF trans.debit > 0 THEN format_2f(trans.debit) ELSE <<>>,
                     IF trans.credit > 0 THEN format_2f(trans.credit) ELSE <<>>,
                     IF trans.balance > 0 THEN format_2f(trans.balance) ELSE <<>> >>],
   total_debits |-> format_2f(statement.total_debits),
   total_credits |-> format_2f(statement.total_credits),
   opening_balance |-> IF statement.opening_balance # 0
                       THEN format_2f(statement.opening_balance) ELSE <<>>,
   closing_balance |-> IF statement.closing_balance # 0
                       THEN format_2f(statement.closing_balance) ELSE <<>>]

parse_bank_statement_to_csv(ai_response) ==
  LET both(bank_statement) ==
        [bank_statement |-> bank_statement, csv_content |-> to_csv(bank_statement)]
  IN  both(parse(ai_response))

\* the dictionary extract_and_validate returns
extract_and_validate(vlm_response, output_format) ==
  LET formatted(bank_statement, csv_content, validation_errors) ==
        [status |-> "success",
         format |-> output_format,
         data |-> IF output_format = "json" THEN bank_statement
                  ELSE IF output_format = "csv" THEN csv_content
                  ELSE _json_to_table(bank_statement),
         transaction_count |-> Len(bank_statement.transactions),
         validation_errors |-> IF output_format = "json" THEN validation_errors ELSE <<>>]
      validated(bank_statement, csv_content, validation_errors) ==
        formatted(IF validation_errors # <<>>
                  THEN _fix_common_issues(bank_statement, validation_errors)
                  ELSE bank_statement,
                  csv_content, validation_errors)
      parsed(r) ==
        validated(r.bank_statement, r.csv_content,
                  _validate_balances(r.bank_statement.transactions))
  IN  parsed(parse_bank_statement_to_csv(vlm_response))

----------------------------------------------------------------------------
(* parse_bank_table_to_json (bank_table_parser_v3.py)                      *)

k_rule == <<"-","-","-">>
k_Date == <<"D","a","t","e">>
k_previous_balance == <<"p","r","e","v","i","o","u","s"," ","b","a","l","a","n","c","e">>
k_refund == <<"r","e","f","u","n","d">>
k_transfer_from_dash == <<"t","r","a","n","s","f","e","r"," ","-"," ","f","r","o","m">>
k_from_savings == <<"f","r","o","m"," ","s","a","v","i","n","g","s">>

\* re.match(r'^\d+[\d,]*\.?\d*$', s): digits and commas after a first
\* digit, then at most one dot followed by digits only
matches_amount(s) ==
  LET fraction(e) == e + digit_run(s, e) - 1 = Len(s)
      point(n) == fraction(IF n + 1 <= Len(s) /\ s[n + 1] = "." THEN n + 2 ELSE n + 1)
  IN  s # <<>> /\ isdigit(s[1]) /\ point(numchar_run(s, 1))

\* re.match(r'^-?\d+[\d,]*\.?\d*$', s)
matches_signed_amount(s) ==
  IF s # <<>> /\ s[1] = "-" THEN matches_amount(Tail(s)) ELSE matches_amount(s)

\* the table borders: a first and a last empty part are removed
trim_border(parts0) ==
  LET p1 == IF parts0 # <<>> /\ parts0[1] = <<>> THEN Tail(parts0) ELSE parts0
  IN  IF p1 # <<>> /\ p1[Len(p1)] = <<>> THEN SubSeq(p1, 1, Len(p1) - 1) ELSE p1

\* Python index of the balance cell: the last numeric part from index j
\* down to index 2; -1 when there is none
RECURSIVE balance_idx_from(_, _)
balance_idx_from(parts, j) ==
  IF j < 2 THEN 0 - 1
  ELSE IF parts[j + 1] # <<>> /\ matches_signed_amount(remove_chars(parts[j + 1], {","}))
  THEN j
  ELSE balance_idx_from(parts, j - 1)

balance_idx(parts) == balance_idx_from(parts, Len(parts) - 1)

is_reference_number(parts, j) ==
  j = 2 /\ Len(parts[j + 1]) >= 4 /\ \A i \in 1..Len(parts[j + 1]) : parts[j + 1][i] # "."

\* Python index of the amount cell: the first numeric part of the middle
\* columns from index j on that is not a reference number; -1 when there
\* is none
RECURSIVE amount_idx_from(_, _)
amount_idx_from(parts, j) ==
  IF j > Len(parts) - 2 THEN 0 - 1
  ELSE IF /\ parts[j + 1] # <<>>
          /\ matches_amount(remove_chars(parts[j + 1], {","}))
          /\ ~is_reference_number(parts, j)
  THEN j
  ELSE amount_idx_from(parts, j + 1)

amount_idx(parts) == amount_idx_from(parts, 2)

is_credit_description(description) ==
  LET credit_keywords(desc_lower) ==
        \/ contains(desc_lower, k_deposit) \/ contains(desc_lower, k_refund)
        \/ contains(desc_lower, k_transfer_from_dash) \/ contains(desc_lower, k_from_savings)
        \/ contains(desc_lower, k_income) \/ contains(desc_lower, k_payroll)
  IN  credit_keywords(lower(description))

\* the keywords asked before the balance change
keywords_say_credit(balance_change, amount, description) ==
  IF is_credit_description(description) THEN TRUE
  ELSE abs(balance_change - amount) < 1

\* the if/elif/else on the balance change of a row with amount > 0: TRUE
\* for credit = amount, FALSE for debit = amount
balance_says_credit(balance_change, amount, description) ==
  IF abs(balance_change - amount) < 1 THEN TRUE
  ELSE IF abs(balance_change + amount) < 1 THEN FALSE
  ELSE is_credit_description(description)

\* balance_str.replace(',', '').replace('(', '-').replace(')', '')
balance_clean(balance_str) ==
  LET opened(t) == [i \in 1..Len(t) |-> IF t[i] = "(" THEN "-" ELSE t[i]]
  IN  remove_chars(opened(remove_chars(balance_str, {","})), {")"})

\* round(x, 2) of an amount that has two fractional digits
round2(x) == x

\* the rows a line adds to the transactions collected so far
table_json_line(line, transactions) ==
  LET transaction(date_str, description, ref, amount, balance, is_credit) ==
        <<[date |-> date_str, description |-> description, reference |-> ref,
           debit |-> round2(IF amount > 0 /\ ~is_credit THEN amount ELSE 0),
           credit |-> round2(IF amount > 0 /\ is_credit THEN amount ELSE 0),
           balance |-> round2(balance)]>>
      classified(date_str, description, ref, amount, balance, prev_balance) ==
        transaction(date_str, description, ref, amount, balance,
                    balance_says_credit(balance - prev_balance, amount, description))
      parsed(date_str, description, ref, amount, balance) ==
        IF transactions # <<>>
        THEN classified(date_str, description, ref, amount, balance,
                        transactions[Len(transactions)].balance)
        ELSE IF contains(lower(description), k_previous_balance)
        THEN <<[date |-> date_str, description |-> description, reference |-> ref,
                debit |-> 0, credit |-> 0, balance |-> balance]>>
        ELSE classified(date_str, description, ref, amount, balance, 0)
      found(parts, bi, ai) ==
        IF bi < 0 THEN <<>>
        ELSE parsed(parts[1], parts[2],
                    IF matches_amount(remove_chars(parts[3], {","})) THEN <<>> ELSE parts[3],
                    IF ai < 0 THEN 0 ELSE float(remove_chars(parts[ai + 1], {","})).val,
                    float(balance_clean(parts[bi + 1])).val)
      row(parts) ==
        IF Len(parts) < 5 THEN <<>>
        ELSE IF \A i \in 1..Len(parts[1]) : ~isdigit(parts[1][i]) THEN <<>>
        ELSE found(parts, balance_idx(parts), amount_idx(parts))
  IN  IF ~contains(line, k_pipe) \/ contains(line, k_rule) \/ contains(upper(line), k_Date)
      THEN <<>>
      ELSE row(trim_border(stripped_parts(line)))

RECURSIVE table_json_lines(_, _, _)
table_json_lines(lines, k, transactions) ==
  IF k > Len(lines) THEN transactions
  ELSE table_json_lines(lines, k + 1, transactions \o table_json_line(lines[k], transactions))

\* table_text.strip() only removes white space that the per-cell strip and
\* the skip of lines without a pipe remove as well
parse_bank_table_to_json(lines) ==
  LET totals(transactions) ==
        [opening_balance |-> IF transactions # <<>> THEN transactions[1].balance ELSE 0,
         closing_balance |-> IF transactions # <<>>
                             THEN transactions[Len(transactions)].balance ELSE 0,
         transaction_count |-> Len(transactions),
         total_debits |-> round2(sum_field(transactions, "debit")),
         total_credits |-> round2(sum_field(transactions, "credit")),
         transactions |-> transactions]
  IN  totals(table_json_lines(lines, 1, <<>>))

----------------------------------------------------------------------------
(* validate_and_fix_bank_extraction (bank_statement_post_processor.py)     *)

k_opening_balance == <<"o","p","e","n","i","n","g"," ","b","a","l","a","n","c","e">>
k_31_DEC == <<"3","1"," ","D","E","C">>
k_NOV == <<"N","O","V">>
k_OCT == <<"O","C","T">>
k_SEP == <<"S","E","P">>
k_blank == <<"b","l","a","n","k">>

\* str.replace(k, ''): the occurrences of k removed, left to right
RECURSIVE remove_substr(_, _)
remove_substr(s, k) ==
  IF s = <<>> THEN <<>>
  ELSE IF startswith(s, k) THEN remove_substr(SubSeq(s, Len(k) + 1, Len(s)), k)
  ELSE <<s[1]>> \o remove_substr(Tail(s), k)

\* end of '{' digits '}' starting at p, 0 when it does not start there
brace_code_at(s, p) ==
  LET closed(n) ==
        IF p <= Len(s) /\ s[p] = "{" /\ n >= 1 /\ p + n + 1 <= Len(s) /\ s[p + n + 1] = "}"
        THEN p + n + 1 ELSE 0
  IN  closed(digit_run(s, p + 1))

\* re.search(r'\{(\d+)\}', desc).group(1) from position p on, empty when
\* there is no match
RECURSIVE brace_code_from(_, _)
brace_code_from(s, p) ==
  LET found(e) == IF e > 0 THEN SubSeq(s, p + 1, e - 1) ELSE brace_code_from(s, p + 1)
  IN  IF p > Len(s) THEN <<>> ELSE found(brace_code_at(s, p))

brace_code(s) == brace_code_from(s, 1)

RECURSIVE space_run(_, _)
space_run(s, p) ==
  IF p <= Len(s) /\ s[p] \in Whitespace THEN 1 + space_run(s, p + 1) ELSE 0

\* re.sub(r'\s*\{\d+\}', '', s) from position p on
RECURSIVE sub_brace_codes(_, _)
sub_brace_codes(s, p) ==
  LET found(e) ==
        IF e > 0 THEN sub_brace_codes(s, e + 1) ELSE <<s[p]>> \o sub_brace_codes(s, p + 1)
  IN  IF p > Len(s) THEN <<>> ELSE found(brace_code_at(s, p + space_run(s, p)))

\* step 3: the loop over all transactions; has_prev is "prev_balance is
\* not None"; at is the number i+1 the message names
RECURSIVE continuity_issues(_, _, _, _)
continuity_issues(transactions, i, has_prev, prev_balance) ==
  IF i > Len(transactions) - 1 THEN <<>>
  ELSE LET trans == transactions[i + 1]
           expected_balance == prev_balance - trans.debit + trans.credit
       IN  (IF has_prev /\ abs(expected_balance - trans.balance) > 1
            THEN <<[kind |-> "discontinuity", at |-> i + 1]>> ELSE <<>>)
           \o continuity_issues(transactions, i + 1, TRUE, trans.balance)

\* step 4 on one transaction
fix_description(trans) ==
  LET referenced(unblanked, code) ==
        IF /\ contains(trans.description, <<"{">>) /\ contains(trans.description, <<"}">>)
           /\ code # <<>>
        THEN [unblanked EXCEPT !.reference = code,
                               !.description = strip(sub_brace_codes(trans.description, 1))]
        ELSE unblanked
  IN  referenced(IF contains(lower(trans.description), k_blank)
                 THEN [trans EXCEPT
                         !.description = strip(remove_substr(trans.description, k_blank))]
                 ELSE trans,
                 brace_code(trans.description))

validate_and_fix_bank_extraction(extracted_data) ==
  LET missing_end(transactions, last_date) ==
        /\ \A i \in 1..Len(transactions) : ~contains(transactions[i].date, k_31_DEC)
        /\ (contains(last_date, k_NOV) \/ contains(last_date, k_OCT)
            \/ contains(last_date, k_SEP))
      checked(transactions, fixes_applied) ==
        [transactions |-> [i \in 1..Len(transactions) |-> fix_description(transactions[i])],
         issues |-> (IF transactions # <<>>
                        /\ missing_end(transactions, transactions[Len(transactions)].date)
                     THEN <<[kind |-> "missing_end", at |-> 0]>> ELSE <<>>)
                    \o continuity_issues(transactions, 0, FALSE, 0),
         fixes_applied |-> fixes_applied,
         transaction_count |-> Len(transactions)]
      opening(transactions, popped) ==
        checked(IF popped THEN Tail(transactions) ELSE transactions,
                IF popped THEN <<"Removed opening balance from transactions">> ELSE <<>>)
  IN  opening(extracted_data.transactions,
              /\ extracted_data.transactions # <<>>
              /\ contains(lower(extracted_data.transactions[1].description), k_opening_balance))

----------------------------------------------------------------------------
(* LangChainExtractor (services/vlm/langchain_extractor.py); the optimized *)
(* extractor (langchain_extractor_optimized.py) has the same models and the *)
(* same _fix_transaction_classifications                                    *)

\* An Optional[float] is None or <<v>>, v in cents.
truthy(v) == v # None /\ v[1] # 0

zfill2(s) == IF Len(s) >= 2 THEN s ELSE IF Len(s) = 1 THEN <<"0">> \o s ELSE <<"0", "0">>

\* BankTransaction.validate_date: m/d/y becomes y-mm-dd; a date with '/'
\* that has not three parts falls out of the function (None)
lc_validate_date(v) ==
  LET converted(parts) ==
        IF Len(parts) = 3
        THEN parts[3] \o <<"-">> \o zfill2(parts[1]) \o <<"-">> \o zfill2(parts[2])
        ELSE None
  IN  IF \E i \in 1..Len(v) : v[i] = "/" THEN converted(split(v, "/")) ELSE v

\* BankTransaction(**txn) of the LangChain models; numbers are kept as
\* they are (float(v)), None stays None
lc_BankTransaction(txn) ==
  [date |-> lc_validate_date(txn.date), description |-> txn.description,
   debit |-> txn.debit, credit |-> txn.credit, balance |-> txn.balance]

lc_BankStatement(transactions) ==
  [transactions |-> transactions, total_debits |-> None, total_credits |-> None]

RECURSIVE sum_truthy(_, _)
sum_truthy(ts, f) ==
  IF ts = <<>> THEN 0
  ELSE (IF truthy(ts[1][f]) THEN ts[1][f][1] ELSE 0) + sum_truthy(Tail(ts), f)

lc_calculate_totals(st) ==
  [st EXCEPT !.total_debits = <<sum_truthy(st.transactions, "debit")>>,
             !.total_credits = <<sum_truthy(st.transactions, "credit")>>]

balance_terms ==
  <<<<"o","p","e","n","i","n","g"," ","b","a","l","a","n","c","e">>, <<"c","l","o","s","i","n","g"," ","b","a","l","a","n","c","e">>, <<"b","e","g","i","n","n","i","n","g"," ","b","a","l","a","n","c","e">>>>
credit_terms ==
  <<<<"d","i","r","e","c","t"," ","c","r","e","d","i","t">>, <<"d","e","p","o","s","i","t">>, <<"t","r","a","n","s","f","e","r"," ","f","r","o","m">>, <<"r","e","c","e","i","v","e","d">>,
    <<"r","e","f","u","n","d">>, <<"s","a","l","a","r","y">>, <<"p","a","y","r","o","l","l">>>>
debit_terms ==
  <<<<"d","i","r","e","c","t"," ","d","e","b","i","t">>, <<"p","a","y","m","e","n","t">>, <<"p","u","r","c","h","a","s","e">>, <<"t","r","a","n","s","f","e","r"," ","t","o">>,
    <<"w","i","t","h","d","r","a","w","a","l">>, <<"f","e","e">>, <<"c","h","a","r","g","e">>>>
both_set_terms == <<<<"c","r","e","d","i","t">>, <<"d","e","p","o","s","i","t">>, <<"f","r","o","m">>, <<"r","e","c","e","i","v","e","d">>>>

\* any(term in desc_lower for term in terms)
any_term(desc_lower, terms) == \E i \in 1..Len(terms) : contains(desc_lower, terms[i])

\* the body of the loop of _fix_transaction_classifications
fix_classification(txn) ==
  LET only_one(t, desc_lower) ==
        IF truthy(t.debit) /\ truthy(t.credit)
        THEN IF any_term(desc_lower, both_set_terms)
             THEN [t EXCEPT !.debit = None]
             ELSE [t EXCEPT !.credit = None]
        ELSE t
      forced(desc_lower) ==
        IF any_term(desc_lower, credit_terms)
        THEN IF truthy(txn.debit) /\ ~truthy(txn.credit)
             THEN [txn EXCEPT !.credit = txn.debit, !.debit = None]
             ELSE txn
        ELSE IF any_term(desc_lower, debit_terms)
             THEN IF truthy(txn.credit) /\ ~truthy(txn.debit)
                  THEN [txn EXCEPT !.debit = txn.credit, !.credit = None]
                  ELSE txn
             ELSE txn
      fixed_txn(desc_lower) ==
        IF any_term(desc_lower, balance_terms)
        THEN [txn EXCEPT !.debit = None, !.credit = None]
        ELSE only_one(forced(desc_lower), desc_lower)
  IN  fixed_txn(lower(txn.description))

_fix_transaction_classifications(st) ==
  [st EXCEPT !.transactions =
     [i \in 1..Len(st.transactions) |-> fix_classification(st.transactions[i])]]

----------------------------------------------------------------------------
(* _manual_json_parse: the repairs of the response text.  A response is    *)
(* one sequence of characters here, line ends included.                    *)

\* the characters str.strip() removes and \s matches
TextSpace == {" ", "\t", "\n", "\r"}

\* the code block marker, three backquotes; a TLA+ string cannot hold a
\* backquote, which is written ~ in this module
k_fence == <<"~","~","~">>
k_fence_json == <<"~","~","~","j","s","o","n">>

endswith(s, k) == Len(s) >= Len(k) /\ SubSeq(s, Len(s) - Len(k) + 1, Len(s)) = k

\* the least and the greatest of a set of positions, 0 when it is empty
first_of(ps) == IF ps = {} THEN 0 ELSE CHOOSE p \in ps : \A q \in ps : p <= q
last_of(ps) == IF ps = {} THEN 0 ELSE CHOOSE p \in ps : \A q \in ps : q <= p

\* k stands in s at position p
stands_at(s, k, p) == p + Len(k) - 1 <= Len(s) /\ SubSeq(s, p, p + Len(k) - 1) = k

\* position of the first k in s at or after position p, 0 when there is none
find(s, k, p) == first_of({q \in p..Len(s) : stands_at(s, k, q)})

\* position of the last character c of s at or before position p, 0 when
\* there is none
rfind_char(s, c, p) == last_of({q \in 1..p : s[q] = c})

\* the first position at or after p that holds no white space, Len(s) + 1
\* when there is none
skip_space(s, p) ==
  first_of({q \in p..(Len(s) + 1) : q > Len(s) \/ s[q] \notin TextSpace})

\* LangChainExtractor: the code block markers at the ends of the response
\* removed
without_fences(response) ==
  LET tail(c) == IF endswith(c, k_fence) THEN SubSeq(c, 1, Len(c) - 3) ELSE c
      head(c) == IF startswith(c, k_fence) THEN SubSeq(c, 4, Len(c)) ELSE c
      json_head(c) == IF startswith(c, k_fence_json) THEN SubSeq(c, 8, Len(c)) ELSE c
  IN  strip_chars(tail(head(json_head(strip_chars(response, TextSpace)))), TextSpace)

\* group 1 of fence\s*(.*?)\s*marker searched in c (re.DOTALL), c when the
\* pattern does not match
fenced_block(c, fence) ==
  LET inner(start, close) ==
        IF close = 0 THEN c ELSE rstrip(SubSeq(c, start, close - 1), TextSpace)
      from(start) == inner(start, find(c, k_fence, start))
      opened(p) == from(skip_space(c, p + Len(fence)))
  IN  opened(find(c, fence, 1))

\* LangChainExtractorOptimized: the content of the first code block
without_fences_optimized(response) ==
  LET cleaned(c) ==
        IF find(c, k_fence_json, 1) # 0 THEN fenced_block(c, k_fence_json)
        ELSE IF find(c, k_fence, 1) # 0 THEN fenced_block(c, k_fence)
        ELSE c
  IN  cleaned(strip_chars(response, TextSpace))

\* re.search(r'\{.*\}', cleaned, re.DOTALL).group(): from the first '{' to
\* the last '}'; the empty text when there is no match
json_block(cleaned) ==
  LET span(open, close) ==
        IF open # 0 /\ close > open THEN SubSeq(cleaned, open, close) ELSE <<>>
  IN  span(find(cleaned, <<"{">>, 1), rfind_char(cleaned, "}", Len(cleaned)))

\* re.sub(r',\s*X', 'X', s) for the closing character X, from position p
\* on: a comma followed by white space and X goes, and the white space
\* with it
RECURSIVE sub_trailing_comma(_, _, _)
sub_trailing_comma(s, p, close) ==
  LET closes(q) == q <= Len(s) /\ s[q] = close
      trailing(i) == s[i] = "," /\ closes(skip_space(s, i + 1))
      next(i) ==
        IF i = 0 THEN SubSeq(s, p, Len(s))
        ELSE SubSeq(s, p, i - 1) \o sub_trailing_comma(s, skip_space(s, i + 1), close)
  IN  next(first_of({i \in p..Len(s) : trailing(i)}))

----------------------------------------------------------------------------
(* eval(expr, {"__builtins__": {}}) on the text of an arithmetic           *)
(* expression: numbers, + - * /, unary signs.  Values are cents; a product *)
(* or quotient is rounded to the cent.  '**' and '//' are not modelled.    *)

ExprChars == {DigitChars[d] : d \in 1..10} \cup {".", "+", "-", "*", "/"} \cup TextSpace

\* length of the number literal of s at position p: digits [. digits], or
\* . digits
number_run(s, p) ==
  LET fraction(n) ==
        IF p + n <= Len(s) /\ s[p + n] = "." THEN n + 1 + digit_run(s, p + n + 1) ELSE n
  IN  fraction(digit_run(s, p))

\* an integer literal with a leading zero is a syntax error unless it is
\* all zeros
literal_ok(lit) ==
  /\ \E i \in 1..Len(lit) : isdigit(lit[i])
  /\ (\E i \in 1..Len(lit) : lit[i] = ".")
     \/ lit[1] # "0" \/ \A i \in 1..Len(lit) : lit[i] = "0"

\* the tokens of the expression from position p on: numbers as
\* [op |-> "n", val, fl] and operators as [op |-> the character]; a token
\* with op "?" marks what is not a token
RECURSIVE expr_tokens(_, _)
expr_tokens(s, p) ==
  LET number(n) ==
        IF n = 0 \/ ~literal_ok(SubSeq(s, p, p + n - 1))
        THEN <<[op |-> "?", val |-> 0, fl |-> FALSE]>>
        ELSE <<[op |-> "n", val |-> float(SubSeq(s, p, p + n - 1)).val,
                fl |-> \E i \in p..(p + n - 1) : s[i] = "."]>>
             \o expr_tokens(s, p + n)
  IN  IF p > Len(s) THEN <<>>
      ELSE IF s[p] \in {" ", "\t"} THEN expr_tokens(s, p + 1)
      ELSE IF s[p] \in {"+", "-", "*", "/"}
      THEN <<[op |-> s[p], val |-> 0, fl |-> FALSE]>> \o expr_tokens(s, p + 1)
      ELSE number(number_run(s, p))

\* x / z rounded to the nearest integer, z # 0
rounded_div(x, z) ==
  LET q(a, b) == (2 * a + b) \div (2 * b)
  IN  IF (x < 0) = (z < 0) THEN q(abs(x), abs(z)) ELSE 0 - q(abs(x), abs(z))

no_value == [ok |-> FALSE, val |-> 0, fl |-> FALSE, next |-> 0]

\* factor: a number with any unary signs before it
RECURSIVE eval_factor(_, _)
eval_factor(toks, p) ==
  LET signed(r, negative) ==
        IF r.ok /\ negative THEN [r EXCEPT !.val = 0 - r.val] ELSE r
  IN  IF p > Len(toks) THEN no_value
      ELSE IF toks[p].op = "n"
      THEN [ok |-> TRUE, val |-> toks[p].val, fl |-> toks[p].fl, next |-> p + 1]
      ELSE IF toks[p].op \in {"+", "-"} THEN signed(eval_factor(toks, p + 1), toks[p].op = "-")
      ELSE no_value

\* term: factors joined by * and /, from the value left on
RECURSIVE eval_term_rest(_, _)
eval_term_rest(toks, left) ==
  LET joined(op, right) ==
        IF ~right.ok THEN no_value
        ELSE IF op = "*"
        THEN eval_term_rest(toks, [ok |-> TRUE, val |-> rounded_div(left.val * right.val, 100),
                                   fl |-> left.fl \/ right.fl, next |-> right.next])
        ELSE IF right.val = 0 THEN no_value
        ELSE eval_term_rest(toks, [ok |-> TRUE, val |-> rounded_div(left.val * 100, right.val),
                                   fl |-> TRUE, next |-> right.next])
  IN  IF left.ok /\ left.next <= Len(toks) /\ toks[left.next].op \in {"*", "/"}
      THEN joined(toks[left.next].op, eval_factor(toks, left.next + 1))
      ELSE left

eval_term(toks, p) == eval_term_rest(toks, eval_factor(toks, p))

\* expression: terms joined by + and -, from the value left on
RECURSIVE eval_expr_rest(_, _)
eval_expr_rest(toks, left) ==
  LET joined(op, right) ==
        IF ~right.ok THEN no_value
        ELSE eval_expr_rest(toks, [ok |-> TRUE,
                                   val |-> IF op = "+" THEN left.val + right.val
                                           ELSE left.val - right.val,
                                   fl |-> left.fl \/ right.fl, next |-> right.next])
  IN  IF left.ok /\ left.next <= Len(toks) /\ toks[left.next].op \in {"+", "-"}
      THEN joined(toks[left.next].op, eval_term(toks, left.next + 1))
      ELSE left

\* eval(expr): ok = FALSE is the exception (syntax error, division by zero)
eval(expr) ==
  LET whole(toks, r) == IF r.ok /\ r.next = Len(toks) + 1 THEN r ELSE no_value
      value(toks) == whole(toks, eval_expr_rest(toks, eval_term(toks, 1)))
  IN  value(expr_tokens(strip_chars(expr, TextSpace), 1))

\* f'{result}' of an int or a float
py_str(val, fl) ==
  LET m == abs(val)
      cents == m % 100
  IN  (IF val < 0 THEN <<"-">> ELSE <<>>)
      \o digits_of(m \div 100)
      \o (IF ~fl THEN <<>>
          ELSE <<".", DigitChars[(cents \div 10) + 1]>>
               \o (IF cents % 10 = 0 THEN <<>> ELSE <<DigitChars[(cents % 10) + 1]>>))

k_total_debits == <<"\"","t","o","t","a","l","_","d","e","b","i","t","s","\"">>
k_total_credits == <<"\"","t","o","t","a","l","_","c","r","e","d","i","t","s","\"">>

\* length of the run of expression characters of s at position p
expr_run(s, p) ==
  first_of({q \in p..(Len(s) + 1) : q > Len(s) \/ s[q] \notin ExprChars}) - p

\* the match of "(total_debits|total_credits)"\s*:\s*([0-9.\s+\-*/]+) that
\* starts at position p of s: the field with its quotes, and the first
\* position and the length of group 2; length 0 when there is no match
calculation_at(s, p) ==
  LET group(field, start) ==
        [field |-> field, start |-> start, n |-> expr_run(s, start)]
      value(field, colon) ==
        IF colon <= Len(s) /\ s[colon] = ":"
        THEN group(field, skip_space(s, colon + 1))
        ELSE [field |-> field, start |-> p, n |-> 0]
      named(field) == value(field, skip_space(s, p + Len(field)))
  IN  IF stands_at(s, k_total_debits, p) THEN named(k_total_debits)
      ELSE IF stands_at(s, k_total_credits, p) THEN named(k_total_credits)
      ELSE [field |-> <<>>, start |-> p, n |-> 0]

\* re.sub(r'"(total_debits|total_credits)"\s*:\s*([0-9.\s+\-*/]+)',
\* fix_calculations, s) from position p on
RECURSIVE sub_calculations(_, _)
sub_calculations(s, p) ==
  LET fix_calculations(m, r) ==
        IF r.ok THEN m.field \o <<":", " ">> \o py_str(r.val, r.fl)
        ELSE <<>>
      replaced(at, m, r) ==
        SubSeq(s, p, IF r.ok THEN at - 1 ELSE m.start + m.n - 1)
        \o fix_calculations(m, r) \o sub_calculations(s, m.start + m.n)
      matched(at, m) == replaced(at, m, eval(SubSeq(s, m.start, m.start + m.n - 1)))
      next(at) ==
        IF at = 0 THEN SubSeq(s, p, Len(s)) ELSE matched(at, calculation_at(s, at))
  IN  next(first_of({q \in p..Len(s) : calculation_at(s, q).n > 0}))

\* the repairs without the evaluation of the expressions
repaired_commas_only(json_str) ==
  sub_trailing_comma(sub_trailing_comma(json_str, 1, "}"), 1, "]")

\* the three repairs of the JSON text
repaired(json_str) ==
  sub_calculations(sub_trailing_comma(sub_trailing_comma(json_str, 1, "}"), 1, "]"), 1)

----------------------------------------------------------------------------
(* json.loads on the JSON of the responses: objects, arrays, strings       *)
(* without escapes, numbers without exponent, null                         *)

k_null == <<"n","u","l","l">>

\* length of the JSON number of s at position p, 0 when there is none:
\* [-] 0 | digits without leading zero, [. digits]
json_number_run(s, p) ==
  LET fraction(q, n) ==
        IF n = 0 \/ (n > 1 /\ s[q] = "0") THEN 0
        ELSE IF q + n <= Len(s) /\ s[q + n] = "." /\ digit_run(s, q + n + 1) > 0
        THEN (q - p) + n + 1 + digit_run(s, q + n + 1)
        ELSE (q - p) + n
      unsigned(q) == fraction(q, digit_run(s, q))
  IN  IF p <= Len(s) /\ s[p] = "-" THEN unsigned(p + 1) ELSE unsigned(p)

\* the tokens of s from position p on: [t |-> the punctuation character],
\* [t |-> "str", s], [t |-> "num", n], [t |-> "null"]; t = "?" marks what is
\* not JSON
RECURSIVE json_tokens(_, _)
json_tokens(s, p) ==
  LET bad == <<[t |-> "?", s |-> <<>>, n |-> 0]>>
      string(close) ==
        IF close = 0 THEN bad
        ELSE <<[t |-> "str", s |-> SubSeq(s, p + 1, close - 1), n |-> 0]>>
             \o json_tokens(s, close + 1)
      number(n) ==
        IF n = 0 THEN bad
        ELSE <<[t |-> "num", s |-> <<>>, n |-> float(SubSeq(s, p, p + n - 1)).val]>>
             \o json_tokens(s, p + n)
  IN  IF p > Len(s) THEN <<>>
      ELSE IF s[p] \in TextSpace THEN json_tokens(s, skip_space(s, p))
      ELSE IF s[p] \in {"{", "}", "[", "]", ":", ","}
      THEN <<[t |-> s[p], s |-> <<>>, n |-> 0]>> \o json_tokens(s, p + 1)
      ELSE IF s[p] = "\"" THEN string(find(s, <<"\"">>, p + 1))
      ELSE IF stands_at(s, k_null, p)
      THEN <<[t |-> "null", s |-> <<>>, n |-> 0]>> \o json_tokens(s, p + 4)
      ELSE number(json_number_run(s, p))

json_error == [ok |-> FALSE, val |-> <<>>, next |-> 0]

\* the value that starts at token p: a scalar token, [t |-> "obj", members]
\* with members a sequence of <<key, value>>, or [t |-> "arr", items]
RECURSIVE json_value(_, _)
RECURSIVE json_members(_, _, _)
RECURSIVE json_items(_, _, _)
json_value(toks, p) ==
  IF p > Len(toks) THEN json_error
  ELSE IF toks[p].t \in {"str", "num", "null"}
  THEN [ok |-> TRUE, val |-> toks[p], next |-> p + 1]
  ELSE IF toks[p].t = "{"
  THEN IF p + 1 <= Len(toks) /\ toks[p + 1].t = "}"
       THEN [ok |-> TRUE, val |-> [t |-> "obj", members |-> <<>>], next |-> p + 2]
       ELSE json_members(toks, p + 1, <<>>)
  ELSE IF toks[p].t = "["
  THEN IF p + 1 <= Len(toks) /\ toks[p + 1].t = "]"
       THEN [ok |-> TRUE, val |-> [t |-> "arr", items |-> <<>>], next |-> p + 2]
       ELSE json_items(toks, p + 1, <<>>)
  ELSE json_error

json_members(toks, p, acc) ==
  LET after(r) ==
        IF ~r.ok \/ r.next > Len(toks) THEN json_error
        ELSE IF toks[r.next].t = ","
        THEN json_members(toks, r.next + 1, Append(acc, <<toks[p].s, r.val>>))
        ELSE IF toks[r.next].t = "}"
        THEN [ok |-> TRUE,
              val |-> [t |-> "obj", members |-> Append(acc, <<toks[p].s, r.val>>)],
              next |-> r.next + 1]
        ELSE json_error
  IN  IF p + 1 > Len(toks) \/ toks[p].t # "str" \/ toks[p + 1].t # ":" THEN json_error
      ELSE after(json_value(toks, p + 2))

json_items(toks, p, acc) ==
  LET after(r) ==
        IF ~r.ok \/ r.next > Len(toks) THEN json_error
        ELSE IF toks[r.next].t = "," THEN json_items(toks, r.next + 1, Append(acc, r.val))
        ELSE IF toks[r.next].t = "]"
        THEN [ok |-> TRUE, val |-> [t |-> "arr", items |-> Append(acc, r.val)],
              next |-> r.next + 1]
        ELSE json_error
  IN  after(json_value(toks, p))

\* json.loads(s): ok = FALSE is the JSONDecodeError
json_loads(s) ==
  LET whole(toks, r) == IF r.ok /\ r.next = Len(toks) + 1 THEN r ELSE json_error
      decoded(toks) == whole(toks, json_value(toks, 1))
  IN  decoded(json_tokens(s, 1))

\* key in obj, and obj[key] (the last member of that name)
has_key(obj, key) == \E i \in 1..Len(obj.members) : obj.members[i][1] = key
get(obj, key) ==
  obj.members[CHOOSE i \in 1..Len(obj.members) :
                /\ obj.members[i][1] = key
                /\ \A j \in 1..Len(obj.members) : obj.members[j][1] = key => j <= i][2]

----------------------------------------------------------------------------
(* _manual_json_parse: the decoded data made a BankStatement               *)

k_transactions == <<"t","r","a","n","s","a","c","t","i","o","n","s">>
f_date == <<"d","a","t","e">>
f_description == <<"d","e","s","c","r","i","p","t","i","o","n">>
f_debit == <<"d","e","b","i","t">>
f_credit == <<"c","r","e","d","i","t">>
f_balance == <<"b","a","l","a","n","c","e">>
f_total_debits == <<"t","o","t","a","l","_","d","e","b","i","t","s">>
f_total_credits == <<"t","o","t","a","l","_","c","r","e","d","i","t","s">>

\* the marker of a value that the validation of the pydantic model rejects
invalid == <<0, 0>>

\* an amount of a transaction after the conversion of strings: None, <<v>>,
\* or invalid for what the validation rejects
amount_field(obj, key) ==
  LET converted(f) == IF f.ok THEN <<f.val>> ELSE None
      of(v) ==
        IF v.t = "null" THEN None
        ELSE IF v.t = "num" THEN <<v.n>>
        ELSE IF v.t = "str" THEN converted(float(remove_chars(v.s, {"$", ","})))
        ELSE invalid
  IN  IF has_key(obj, key) THEN of(get(obj, key)) ELSE None

\* total_debits and total_credits of the statement
total_field(obj, key) ==
  LET given(f) == IF f.ok THEN <<f.val>> ELSE invalid
      of(v) ==
        IF v.t = "null" THEN None
        ELSE IF v.t = "num" THEN <<v.n>>
        ELSE IF v.t = "str" THEN given(float(v.s))
        ELSE invalid
  IN  IF has_key(obj, key) THEN of(get(obj, key)) ELSE None

text_field_ok(obj, key) == has_key(obj, key) /\ get(obj, key).t = "str"

\* the transaction passes the validation of BankTransaction
transaction_ok(txn) ==
  /\ txn.t = "obj"
  /\ text_field_ok(txn, f_date) /\ text_field_ok(txn, f_description)
  /\ amount_field(txn, f_debit) # invalid
  /\ amount_field(txn, f_credit) # invalid
  /\ amount_field(txn, f_balance) \notin {invalid, None}

\* BankStatement(**data); ok = FALSE is the exception (ValidationError or
\* TypeError)
statement_of(data) ==
  LET built(items) ==
        [ok |-> TRUE,
         statement |->
           [transactions |->
              [i \in 1..Len(items) |->
                 lc_BankTransaction([date |-> get(items[i], f_date).s,
                                     description |-> get(items[i], f_description).s,
                                     debit |-> amount_field(items[i], f_debit),
                                     credit |-> amount_field(items[i], f_credit),
                                     balance |-> amount_field(items[i], f_balance)[1]])],
            total_debits |-> total_field(data, f_total_debits),
            total_credits |-> total_field(data, f_total_credits)]]
      failed == [ok |-> FALSE, statement |-> lc_BankStatement(<<>>)]
      listed(items) ==
        IF /\ \A i \in 1..Len(items) : transaction_ok(items[i])
           /\ total_field(data, f_total_debits) # invalid
           /\ total_field(data, f_total_credits) # invalid
        THEN built(items) ELSE failed
  IN  IF data.t = "obj" /\ has_key(data, k_transactions)
         /\ get(data, k_transactions).t = "arr"
      THEN listed(get(data, k_transactions).items)
      ELSE failed

\* what _manual_json_parse does with the text left after the code block
\* markers are removed; unbound tells whether the handler of the
\* JSONDecodeError can read json_str
manual_parse_of(cleaned, unbound) ==
  LET returned(st) == [raised |-> FALSE, statement |-> st]
      empty == returned(lc_BankStatement(<<>>))
      made(r) == IF r.ok THEN returned(r.statement) ELSE empty
      decoded(r) == IF r.ok THEN made(statement_of(r.val)) ELSE empty
      direct(r) ==
        IF r.ok THEN empty
        ELSE IF unbound THEN [raised |-> TRUE, statement |-> lc_BankStatement(<<>>)]
        ELSE empty
      matched(json_str) ==
        IF json_str # <<>> THEN decoded(json_loads(repaired(json_str)))
        ELSE direct(json_loads(cleaned))
  IN  matched(json_block(cleaned))

\* LangChainExtractor._manual_json_parse
_manual_json_parse(response) == manual_parse_of(without_fences(response), TRUE)

\* LangChainExtractorOptimized._manual_json_parse
_manual_json_parse_optimized(response) ==
  manual_parse_of(without_fences_optimized(response), FALSE)

----------------------------------------------------------------------------
(* LangChainExtractor.extract_from_table_format                            *)

header_words ==
  <<<<"d","a","t","e">>, <<"d","e","s","c","r","i","p","t","i","o","n">>, <<"w","i","t","h","d","r","a","w","a","l","s">>, <<"d","e","p","o","s","i","t","s">>, <<"b","a","l","a","n","c","e">>>>

RECURSIVE drop_blank_head(_)
drop_blank_head(lines) ==
  IF lines # <<>> /\ strip(lines[1]) = <<>> THEN drop_blank_head(Tail(lines)) ELSE lines

RECURSIVE drop_blank_tail(_)
drop_blank_tail(lines) ==
  IF lines # <<>> /\ strip(lines[Len(lines)]) = <<>>
  THEN drop_blank_tail(SubSeq(lines, 1, Len(lines) - 1)) ELSE lines

\* table_text.strip().split('\n'), table_text being the lines joined by '\n'
strip_block(lines) ==
  LET trimmed(ls) ==
        IF ls = <<>> THEN <<<<>>>>
        ELSE [i \in 1..Len(ls) |->
                IF i = 1 /\ i = Len(ls) THEN strip(ls[i])
                ELSE IF i = 1 THEN lstrip(ls[i], Whitespace)
                ELSE IF i = Len(ls) THEN rstrip(ls[i], Whitespace)
                ELSE ls[i]]
  IN  trimmed(drop_blank_tail(drop_blank_head(lines)))

_parse_amount(amount_str) ==
  LET parsed(f) == IF f.ok THEN <<f.val>> ELSE None
  IN  IF strip(amount_str) \in {<<>>, <<"-">>} THEN None
      ELSE parsed(float(remove_chars(strip(amount_str), {"$", ","})))

\* one iteration of the loop of extract_from_table_format
table_format_line(line) ==
  LET made(date, desc, debit, credit, balance_amt) ==
        IF date # <<>> /\ desc # <<>> /\ balance_amt # None
        THEN <<lc_BankTransaction([date |-> date, description |-> desc, debit |-> debit,
                                   credit |-> credit, balance |-> balance_amt[1]])>>
        ELSE <<>>
      row(parts) ==
        IF Len(parts) >= 5
        THEN made(parts[1], parts[2],
                  IF parts[3] # <<>> THEN _parse_amount(parts[3]) ELSE None,
                  IF parts[4] # <<>> THEN _parse_amount(parts[4]) ELSE None,
                  _parse_amount(parts[5]))
        ELSE <<>>
  IN  IF any_term(lower(line), header_words) THEN <<>>
      ELSE IF contains(line, k_pipe) THEN row(stripped_parts(line))
      ELSE <<>>

RECURSIVE table_format_lines(_, _)
table_format_lines(lines, k) ==
  IF k > Len(lines) THEN <<>>
  ELSE table_format_line(lines[k]) \o table_format_lines(lines, k + 1)

extract_from_table_format(lines) ==
  lc_calculate_totals(lc_BankStatement(table_format_lines(strip_block(lines), 1)))

\* self.parser.parse(response) on a response that is the JSON of a statement
parser_parse(response) ==
  lc_BankStatement([i \in 1..Len(response.transactions) |->
                      lc_BankTransaction(response.transactions[i])])

\* extract_bank_statement from the parse of the response on
extract_bank_statement(response) ==
  lc_calculate_totals(_fix_transaction_classifications(parser_parse(response)))

----------------------------------------------------------------------------
(* The responses the operations are run on                                 *)

MaxRows == 2
MaxJsonTransactions == 2

row_direct_credit == <<"|"," ","0","1","/","0","2","/","2","0","2","4"," ","|"," ","D","i","r","e","c","t"," ","C","r","e","d","i","t"," ","|"," ","1","0","0",".","0","0"," ","|"," "," ","|"," ","1",",","1","0","0",".","0","0"," ","|">>
row_payment == <<"|"," ","0","1","/","0","3","/","2","0","2","4"," ","|"," ","P","a","y","m","e","n","t"," ","|"," ","1","0","0",".","0","0"," ","|"," "," ","|"," ","1",",","0","0","0",".","0","0"," ","|">>
row_both_columns == <<"|"," ","0","1","/","0","4","/","2","0","2","4"," ","|"," ","T","r","a","n","s","f","e","r"," ","t","o"," ","x"," ","|"," ","2","0",".","0","0"," ","|"," ","3","0",".","0","0"," ","|"," ","1",",","0","1","0",".","0","0"," ","|">>
row_deposit == <<"|"," ","0","1","/","0","5","/","2","0","2","4"," ","|"," ","D","e","p","o","s","i","t"," ","|"," ","1","0","0",".","0","0"," ","|"," "," ","|"," ","9","0","0",".","0","0"," ","|">>
row_space_three == <<"0","1","/","0","6","/","2","0","2","4"," ","D","e","p","o","s","i","t"," ","1","0","0",".","0","0"," ","0",".","0","0"," ","9","0","0",".","0","0">>
row_space_two == <<"0","1","/","0","7","/","2","0","2","4"," ","P","a","y","m","e","n","t"," ","5","0",".","0","0"," ","8","5","0",".","0","0">>
row_scenario_2 == <<"0","5","-","A","p","r","-","2","5"," ","T","r","a","n","s","f","e","r"," ","t","o"," ","x","x","5","3","3","0"," ","C","o","m","m","B","a","n","k"," ","a","p","p"," ","L","o","a","n"," ","8","5","0",".","0","0"," ","9","0","0",".","0","0">>
row_balance_1750 == <<"0","4","/","0","4","/","2","0","2","5"," ","D","i","r","e","c","t"," ","C","r","e","d","i","t"," ","1",",","7","5","0",".","0","0">>
row_scenario_1 == <<"0","4","-","A","p","r","-","2","5"," ","|"," ","D","i","r","e","c","t"," ","C","r","e","d","i","t"," ","4","0","0","9","3","7"," ","D","B"," ","R","E","S","U","L","T","S"," ","|"," "," ","|"," ","1",",","7","5","0",".","0","0">>
row_closing_balance == <<"|"," ","0","1","/","0","8","/","2","0","2","4"," ","|"," ","C","l","o","s","i","n","g"," ","b","a","l","a","n","c","e"," ","|"," ","1","0","0",".","0","0"," ","|"," "," ","|"," ","9","0","0",".","0","0"," ","|">>

RowPool ==
  {row_direct_credit, row_payment, row_both_columns, row_deposit,
   row_space_three, row_space_two, row_scenario_2, row_balance_1750}

Prefixes == {<<>>, <<table_header>>, <<table_header, table_rule>>}

RECURSIVE SeqsUpTo(_, _)
SeqsUpTo(S, n) ==
  IF n = 0 THEN {<<>>}
  ELSE LET shorter == SeqsUpTo(S, n - 1)
       IN  shorter \cup {Append(q, x) : q \in {r \in shorter : Len(r) = n - 1}, x \in S}

repeat(x, n) == [i \in 1..n |-> x]

\* ten-row statements with three and with four 'direct credit' rows whose
\* amount stands in the debit column
ScenarioTexts ==
  {<<table_header, table_rule>> \o repeat(row_direct_credit, k) \o repeat(row_payment, 10 - k) :
     k \in {3, 4}}

\* the texts of the concrete scenarios
scenario_1_texts == {<<row_scenario_1>>, <<table_header, table_rule, row_scenario_1>>}

\* the table of test_extract_with_fallback_parsing, and its rows alone
test_header == <<" "," "," "," "," "," "," "," ","D","a","t","e"," ","|"," ","D","e","s","c","r","i","p","t","i","o","n"," ","|"," ","D","e","b","i","t"," ","|"," ","C","r","e","d","i","t"," ","|"," ","B","a","l","a","n","c","e">>
test_row_1 == <<" "," "," "," "," "," "," "," ","0","1","/","1","5","/","2","0","2","5"," ","|"," ","G","R","O","C","E","R","Y"," ","S","T","O","R","E"," ","|"," ","1","2","5",".","5","0"," ","|"," ","-"," ","|"," ","1","8","7","4",".","5","0">>
test_row_2 == <<" "," "," "," "," "," "," "," ","0","1","/","1","6","/","2","0","2","5"," ","|"," ","S","A","L","A","R","Y"," ","D","E","P","O","S","I","T"," ","|"," ","-"," ","|"," ","3","0","0","0",".","0","0"," ","|"," ","4","8","7","4",".","5","0">>
test_texts ==
  {<<<<>>, test_header, test_row_1, test_row_2, <<" "," "," "," "," "," "," "," ">>>>,
   <<test_row_1, test_row_2>>}

\* rows before the header, and a second header with the amount columns
\* the other way round
header_credit_first == <<"|"," ","D","a","t","e"," ","|"," ","D","e","s","c","r","i","p","t","i","o","n"," ","|"," ","C","r","e","d","i","t"," ","|"," ","D","e","b","i","t"," ","|"," ","B","a","l","a","n","c","e"," ","|">>
row_misc == <<"|"," ","0","1","/","0","9","/","2","0","2","4"," ","|"," ","M","i","s","c"," ","|"," ","4","0",".","0","0"," ","|"," "," ","|"," ","1",",","0","4","0",".","0","0"," ","|">>
rows_before_header_text ==
  <<row_space_two, row_space_three, table_header, table_rule, row_both_columns>>
two_headers_text ==
  <<table_header, table_rule, row_payment, header_credit_first, table_rule, row_misc>>

\* a balance row after a transaction
closing_balance_text == <<table_header, table_rule, row_payment, row_closing_balance>>

\* rows with the reference number 123456 between the description and the
\* amounts
row_ref_three == <<"0","1","/","0","8","/","2","0","2","4"," ","P","a","y","m","e","n","t"," ","1","2","3","4","5","6"," ","5","0",".","0","0"," ","8","0","0",".","0","0">>
row_ref_only == <<"0","1","/","0","8","/","2","0","2","4"," ","P","a","y","m","e","n","t"," ","1","2","3","4","5","6"," ","8","0","0",".","0","0">>
row_ref_pipe == <<"|"," ","0","1","/","0","3","/","2","0","2","4"," ","|"," ","P","a","y","m","e","n","t"," ","|"," ","1","2","3","4","5","6"," ","|"," ","1","0","0",".","0","0"," ","|"," "," ","|"," ","1",",","0","0","0",".","0","0"," ","|">>
row_ref_pipe_only == <<"|"," ","0","1","/","0","3","/","2","0","2","4"," ","|"," ","P","a","y","m","e","n","t"," ","|"," ","1","2","3","4","5","6"," ","|"," "," ","|"," "," ","|"," ","1",",","0","0","0",".","0","0"," ","|">>
reference_texts ==
  {<<row_space_two, row_ref_three>>, <<row_space_two, row_ref_only>>,
   <<row_ref_pipe>>, <<row_ref_pipe_only>>, <<row_space_two, row_ref_pipe>>}

\* rows whose balance cell is the parenthesized amount (123.45)
row_paren_balance == <<"|"," ","0","1","/","0","3","/","2","0","2","4"," ","|"," ","P","a","y","m","e","n","t"," ","|"," ","1","0","0",".","0","0"," ","|"," "," ","|"," ","(","1","2","3",".","4","5",")"," ","|">>
row_paren_only == <<"|"," ","0","1","/","0","4","/","2","0","2","4"," ","|"," ","P","a","y","m","e","n","t"," ","|"," "," ","|"," "," ","|"," ","(","1","2","3",".","4","5",")"," ","|">>
paren_texts == {<<row_paren_balance>>, <<row_payment, row_paren_only>>}

\* a table whose one row has a date that no format of validate_date reads
raw_dates == {<<"O","c","t"," ","1","4">>, <<"0","4","-","A","p","r","-","2","5">>, <<"9","9","/","9","9","/","2","0","2","4">>}
raw_date_text(d) ==
  <<table_header, table_rule, <<"|"," ">> \o d \o <<" ","|"," ","P","a","y","m","e","n","t"," ","|"," ","5","0",".","0","0"," ","|"," "," ","|"," ","8","5","0",".","0","0"," ","|">>>>
raw_date_texts == {raw_date_text(d) : d \in raw_dates}

\* descriptions with and without a numeric code in braces, each with the
\* reference and the description that the removal of the code leaves
brace_cases ==
  {[description |-> <<"P","a","y","m","e","n","t"," ","{","1","2","3","4","5","}">>, reference |-> <<"1","2","3","4","5">>, left |-> <<"P","a","y","m","e","n","t">>],
   [description |-> <<"P","a","y"," ","{","1","2","}"," ","n","o","w">>, reference |-> <<"1","2">>, left |-> <<"P","a","y"," ","n","o","w">>],
   [description |-> <<"{","1","2","3","4","5","}"," ","P","a","y","m","e","n","t">>, reference |-> <<"1","2","3","4","5">>, left |-> <<"P","a","y","m","e","n","t">>],
   [description |-> <<"P","a","y","m","e","n","t"," ","{","x","1","}">>, reference |-> <<>>, left |-> <<"P","a","y","m","e","n","t"," ","{","x","1","}">>],
   [description |-> <<"P","a","y","m","e","n","t"," ","1","2">>, reference |-> <<>>, left |-> <<"P","a","y","m","e","n","t"," ","1","2">>],
   [description |-> <<"b","l","a","n","k","e","t"," ","s","t","o","r","e">>, reference |-> <<>>, left |-> <<"b","l","a","n","k","e","t"," ","s","t","o","r","e">>]}
brace_text(c) ==
  <<<<"|"," ","0","1","/","0","3","/","2","0","2","4"," ","|"," ">> \o c.description \o <<" ","|"," ","1","0","0",".","0","0"," ","|"," "," ","|"," ","1",",","0","0","0",".","0","0"," ","|">>>>
brace_texts == {brace_text(c) : c \in brace_cases}

FixedTexts ==
  scenario_1_texts \cup {closing_balance_text} \cup test_texts
  \cup {rows_before_header_text, two_headers_text} \cup reference_texts
  \cup paren_texts \cup raw_date_texts \cup brace_texts

TextResponses ==
  {[kind |-> "text", lines |-> p \o rows, transactions |-> <<>>, opening_balance |-> 0,
                        decodes |-> FALSE] :
     p \in Prefixes, rows \in SeqsUpTo(RowPool, MaxRows)}
  \cup {[kind |-> "text", lines |-> t, transactions |-> <<>>, opening_balance |-> 0,
                        decodes |-> FALSE] :
          t \in ScenarioTexts \cup FixedTexts}

\* responses with a '{...}' span: the JSON of a statement amid other text
\* (decoded to span_transactions), and spans that are not JSON
json_line == <<"{","\"","t","r","a","n","s","a","c","t","i","o","n","s","\"",":"," ","[","{","\"","d","a","t","e","\"",":"," ","\"","0","1","/","0","2","/","2","0","2","4","\"",","," ","\"","d","e","s","c","r","i","p","t","i","o","n","\"",":"," ","\"","D","i","r","e","c","t"," ","C","r","e","d","i","t","\"",","," ","\"","d","e","b","i","t","\"",":"," ","1","0","0",".","0","0",","," ","\"","c","r","e","d","i","t","\"",":"," ","0",","," ","\"","b","a","l","a","n","c","e","\"",":"," ","1","1","0","0",".","0","0","}","]","}">>
json_line_empty == <<"{","\"","t","r","a","n","s","a","c","t","i","o","n","s","\"",":"," ","[","]","}">>
not_json_line == <<"{","t","r","a","n","s","a","c","t","i","o","n","s",":"," ","n","o","n","e","}">>

span_transactions ==
  <<[date |-> <<"0","1","/","0","2","/","2","0","2","4">>, description |-> <<"D","i","r","e","c","t"," ","C","r","e","d","i","t">>,
     debit |-> 10000, credit |-> 0, balance |-> 110000]>>

SpanResponses ==
  {[kind |-> "text", lines |-> <<<<"H","e","r","e"," ","a","r","e"," ","t","h","e"," ","t","r","a","n","s","a","c","t","i","o","n","s",":">>, json_line, <<"T","o","t","a","l",":"," ","$","1","0","0",".","0","0">>>>,
    transactions |-> span_transactions, opening_balance |-> 0, decodes |-> TRUE],
   [kind |-> "text", lines |-> <<json_line, row_space_two, row_space_three>>,
    transactions |-> span_transactions, opening_balance |-> 0, decodes |-> TRUE],
   [kind |-> "text", lines |-> <<json_line_empty, row_space_two, row_space_three>>,
    transactions |-> <<>>, opening_balance |-> 0, decodes |-> TRUE],
   [kind |-> "text", lines |-> <<not_json_line, row_space_two, row_space_three>>,
    transactions |-> <<>>, opening_balance |-> 0, decodes |-> FALSE],
   [kind |-> "text", lines |-> <<not_json_line>>,
    transactions |-> <<>>, opening_balance |-> 0, decodes |-> FALSE]}

d_0102 == <<"0","1","/","0","2","/","2","0","2","4">>
d_oct14 == <<"O","c","t"," ","1","4">>

JsonTransactionPool ==
  {[date |-> d_0102, description |-> <<"D","i","r","e","c","t"," ","C","r","e","d","i","t">>,
    debit |-> 10000, credit |-> 0, balance |-> 110000],
   [date |-> d_0102, description |-> <<"P","a","y","m","e","n","t">>,
    debit |-> 0 - 10000, credit |-> 0, balance |-> 100000],
   [date |-> d_0102, description |-> <<"T","r","a","n","s","f","e","r"," ","t","o"," ","x">>,
    debit |-> 2000, credit |-> 3000, balance |-> 101000],
   [date |-> d_oct14, description |-> <<"C","l","o","s","i","n","g"," ","b","a","l","a","n","c","e">>,
    debit |-> 0, credit |-> 0, balance |-> 101000]}

JsonResponses ==
  {[kind |-> "json", lines |-> <<>>, transactions |-> ts, opening_balance |-> ob,
    decodes |-> TRUE] :
     ts \in SeqsUpTo(JsonTransactionPool, MaxJsonTransactions), ob \in {0, 100000}}

OutputFormats == {"json", "csv", "table"}

\* JSON transactions of the LangChain models: debit and credit may be null
LcDescriptions ==
  {<<"S","a","l","a","r","y">>, <<"R","e","f","u","n","d">>, <<"I","n","c","o","m","e">>, <<"P","a","y","m","e","n","t"," ","f","r","o","m"," ","J","o","h","n">>,
   <<"D","i","r","e","c","t"," ","C","r","e","d","i","t">>, <<"T","r","a","n","s","f","e","r"," ","t","o"," ","x">>, <<"M","i","s","c">>, <<"D","e","p","o","s","i","t"," ","f","e","e">>,
   <<"O","p","e","n","i","n","g"," ","b","a","l","a","n","c","e">>, <<"P","r","e","v","i","o","u","s"," ","b","a","l","a","n","c","e">>, <<"C","l","o","s","i","n","g"," ","b","a","l","a","n","c","e">>}

LcAmounts ==
  {<<None, <<10000>>>>, <<<<10000>>, None>>, <<<<10000>>, <<5000>>>>,
   <<<<10000>>, <<0>>>>, <<<<0>>, <<10000>>>>}

LcTransactionPool ==
  {[date |-> d_0102, description |-> ds, debit |-> a[1], credit |-> a[2], balance |-> 90000] :
     ds \in LcDescriptions, a \in LcAmounts}

LcLeadPool ==
  {[date |-> d_0102, description |-> <<"O","p","e","n","i","n","g"," ","b","a","l","a","n","c","e">>,
    debit |-> <<10000>>, credit |-> <<5000>>, balance |-> 90000],
   [date |-> d_0102, description |-> <<"S","a","l","a","r","y">>,
    debit |-> <<10000>>, credit |-> None, balance |-> 90000]}

LangChainResponses ==
  {[kind |-> "langchain", transactions |-> ts] :
     ts \in {<<>>} \cup {<<t>> : t \in LcTransactionPool}
            \cup {<<h, t>> : h \in LcLeadPool, t \in LcTransactionPool}}

\* responses for _manual_json_parse: the JSON text of a statement whose
\* total is written as an expression.  Each transaction and each expression
\* is paired with what it denotes (amounts in cents; value None where Python
\* gives the expression no value).
ManualTransactions ==
  <<[text |-> <<"{","\"","d","a","t","e","\"",":","\"","0","1","/","0","2","/","2","0","2","4","\"",",","\"","d","e","s","c","r","i","p","t","i","o","n","\"",":","\"","F","e","e","\"",",","\"","d","e","b","i","t","\"",":","1","2",".","5",",","\"","b","a","l","a","n","c","e","\"",":","8","7",".","5","}">>,
     txn |-> [date |-> <<"2","0","2","4","-","0","1","-","0","2">>, description |-> <<"F","e","e">>,
              debit |-> <<1250>>, credit |-> None, balance |-> 8750]],
    [text |-> <<"{","\"","d","a","t","e","\"",":","\"","0","1","/","0","3","/","2","0","2","4","\"",",","\"","d","e","s","c","r","i","p","t","i","o","n","\"",":","\"","P","a","y","\"",",","\"","c","r","e","d","i","t","\"",":","3",".","2",",","\"","b","a","l","a","n","c","e","\"",":","9","0",".","7","}">>,
     txn |-> [date |-> <<"2","0","2","4","-","0","1","-","0","3">>, description |-> <<"P","a","y">>,
              debit |-> None, credit |-> <<320>>, balance |-> 9070]]>>

ManualExpressions ==
  {[text |-> <<"1","2",".","5"," ","+"," ","3",".","2">>, value |-> <<1570>>],
   [text |-> <<"2"," ","*"," ","5","0">>, value |-> <<10000>>],
   [text |-> <<"1","0","0"," ","/"," ","4">>, value |-> <<2500>>],
   [text |-> <<"1","0"," ","-"," ","2",".","5"," ","*"," ","2">>, value |-> <<500>>],
   [text |-> <<"1","5",".","7">>, value |-> <<1570>>],
   [text |-> <<"5"," ","/"," ","0">>, value |-> None],
   [text |-> <<"0","7"," ","+"," ","1">>, value |-> None]}

ManualFences == {"none", "json", "plain"}

\* the response text: n transactions, the total named field, trailing commas
\* in the array and the object when commas is set, inside the code block
\* markers of the fence
manual_text(fence, commas, n, field, expr) ==
  LET comma == IF commas THEN <<",">> ELSE <<>>
      listed == IF n = 1 THEN ManualTransactions[1].text
                ELSE ManualTransactions[1].text \o <<",">> \o ManualTransactions[2].text
      body == <<"{","\"","t","r","a","n","s","a","c","t","i","o","n","s","\"",":","[">> \o listed \o comma \o <<"]",",","\"">> \o field
              \o <<"\"",":"," ">> \o expr \o comma \o <<"\n","}">>
  IN  IF fence = "json" THEN k_fence_json \o <<"\n">> \o body \o <<"\n">> \o k_fence
      ELSE IF fence = "plain" THEN k_fence \o <<"\n">> \o body \o <<"\n">> \o k_fence
      ELSE body

ManualResponses ==
  {[kind |-> "manual", text |-> manual_text(fence, commas, n, field, e.text),
    fence |-> fence, commas |-> commas,
    listed |-> [i \in 1..n |-> ManualTransactions[i].txn],
    field |-> field, value |-> e.value] :
     fence \in ManualFences, commas \in BOOLEAN, n \in 1..2,
     field \in {f_total_debits, f_total_credits}, e \in ManualExpressions}
  \cup {[kind |-> "manual", text |-> t, fence |-> "none", commas |-> FALSE,
         listed |-> <<>>, field |-> f_total_debits, value |-> None] :
          t \in {<<"n","o"," ","j","s","o","n"," ","h","e","r","e">>, <<"[","]">>, <<"{","}">>}}

----------------------------------------------------------------------------
(* The operations                                                          *)

VARIABLES
  vlm_response,       \* the response the operations are given
  pc,                 \* the operation that returned last, "idle" before any
  statement,          \* what parse_bank_statement_to_csv returned
  validation_errors,  \* what _validate_balances returned
  fixed,              \* what _fix_common_issues returned
  reparsed,           \* parse of the table _json_to_table made of statement
  result,             \* what extract_and_validate returned
  table_json,         \* what parse_bank_table_to_json returned
  post,               \* what validate_and_fix_bank_extraction returned
  lc_statement,       \* the statement extract_bank_statement parsed
  lc_result,          \* what extract_bank_statement returned
  manual,             \* what _manual_json_parse of each extractor returned
  providers,          \* UnifiedLLMProvider.providers: is each provider available
  current_provider,   \* UnifiedLLMProvider.current_provider
  calls,              \* each task's call of UnifiedLLMProvider.generate
  last_switch,        \* the provider the last successful switch_provider chose
  provider_op,        \* the call on the UnifiedLLMProvider that returned last
  max_size,           \* ResponseCache.max_size
  cache,              \* ResponseCache.cache: key -> (timestamp, response)
  access_order,       \* ResponseCache.access_order
  clock,              \* what time.time() returns
  use_order,          \* the keys set or hit, the least recently used first
  cache_op            \* the last get, set or clear of the ResponseCache

vars == <<vlm_response, pc, statement, validation_errors, fixed, reparsed,
          result, table_json, post, lc_statement, lc_result, manual,
          providers, current_provider, calls, last_switch, provider_op,
          max_size, cache, access_order, clock, use_order, cache_op>>

bank_vars == <<vlm_response, pc, statement, validation_errors, fixed, reparsed,
               result, table_json, post, lc_statement, lc_result, manual>>
llm_vars == <<providers, current_provider, calls, last_switch, provider_op>>
cache_vars == <<max_size, cache, access_order, clock, use_order, cache_op>>

-----------------------------------------------------------------------------
(* UnifiedLLMProvider                                                      *)

ProviderNames == {"local", "openai"}
SwitchNames == ProviderNames \cup {"invalid"}
Tasks == {1, 2}

\* LLMResponse: content, metadata provider, fallback marks, error
LLMResponse(content, provider, error) ==
  [content |-> content, provider |-> provider, fallback_used |-> FALSE,
   fallback_from |-> "", error |-> error]

no_response == LLMResponse("", "", FALSE)

\* what _generate_local and _generate_openai return when their provider
\* responds
_generate_local == LLMResponse("local response", "local", FALSE)
_generate_openai == LLMResponse("openai response", "openai", FALSE)

provider_response(name) ==
  IF name = "local" THEN _generate_local ELSE _generate_openai

fallback_response_unmarked(response, original_provider) == response

\* the fallback marks generate puts on the local response
fallback_response(response, original_provider) ==
  [response EXCEPT !.fallback_used = TRUE, !.fallback_from = original_provider]

\* the response generate returns after a failure
error_response(provider) == LLMResponse("", provider, TRUE)

idle_call ==
  [pc |-> "idle", allow_fallback |-> FALSE, before |-> "local", awaited |-> "",
   attempts |-> <<>>, original_provider |-> "", raised |-> FALSE,
   response |-> no_response]

attempt(name, failed) == [provider |-> name, failed |-> failed]

\* the except block of generate after the failure of the call it made, up
\* to its return or to the await of the local provider; _generate_local
\* raises before it awaits anything when there is no vlm_server
handler(call, current) ==
  IF call.allow_fallback /\ current = "openai"
  THEN IF providers["local"]
       THEN [call |-> [call EXCEPT !.pc = "fallback", !.original_provider = current,
                                   !.awaited = "local"],
             current_provider |-> "local"]
       ELSE [call |-> [call EXCEPT !.pc = "returned", !.original_provider = current,
                                   !.awaited = "",
                                   !.attempts = Append(@, attempt("local", TRUE)),
                                   !.response = error_response("local")],
             current_provider |-> "local"]
  ELSE [call |-> [call EXCEPT !.pc = "returned", !.awaited = "",
                              !.response = error_response(current)],
        current_provider |-> current]

\* switch_provider: its status and the current provider after it
switch_provider(provider_name, current) ==
  IF provider_name \notin ProviderNames
  THEN [status |-> "error", current_provider |-> current]
  ELSE IF ~providers[provider_name]
  THEN [status |-> "error", current_provider |-> current]
  ELSE [status |-> "success", current_provider |-> provider_name]

\* get_provider_info with current_provider = name
get_provider_info(name) == [name |-> name, available |-> providers[name]]

\* get_all_providers: for each name it sets current_provider to the name,
\* takes the info and sets current_provider back
get_all_providers(current) ==
  [result |-> [name \in ProviderNames |-> get_provider_info(name)],
   current_provider |-> current]

no_provider_op == [op |-> "none", name |-> "", status |-> "", before |-> "local"]

\* UnifiedLLMProvider.__init__
llm_init(available) ==
  /\ providers = available
  /\ current_provider = "local"
  /\ calls = [t \in Tasks |-> idle_call]
  /\ last_switch = "local"
  /\ provider_op = no_provider_op

-----------------------------------------------------------------------------
(* ResponseCache                                                           *)

MaxClock == 2
ttl_seconds == 1

\* the requests get and set are called with: an endpoint and one message
\* with a text and an image, of which the key takes the first 100
\* characters (preview) and not the rest
CacheRequests ==
  [endpoint : {"/generate"}, text : {"a", "b", "c"}, preview : {"p"}, rest : {"x", "y"}]
CacheResponses == {"r1", "r2"}

\* _generate_key: the hash of the endpoint, the text and the image preview;
\* distinct values are taken to have distinct hashes
_generate_key(request) ==
  [endpoint |-> request.endpoint, text |-> request.text, preview |-> request.preview]

\* list.remove(key) when key is in the list (each key is in it once at most
\* where the code calls it after the test)
remove(order, key) ==
  IF \E i \in 1..Len(order) : order[i] = key
  THEN LET i == CHOOSE j \in 1..Len(order) :
                  order[j] = key /\ \A h \in 1..(j - 1) : order[h] # key
       IN  SubSeq(order, 1, i - 1) \o SubSeq(order, i + 1, Len(order))
  ELSE order

\* the dictionary without key
without(entries, key) == [k \in DOMAIN entries \ {key} |-> entries[k]]

\* the dictionary with key set to entry
with(entries, key, entry) ==
  [k \in DOMAIN entries \cup {key} |-> IF k = key THEN entry ELSE entries[k]]

\* ResponseCache.get at time now: the cache and access_order after it and
\* what it returned
cache_get(entries, order, key, now) ==
  IF key \in DOMAIN entries
  THEN IF now - entries[key].timestamp > ttl_seconds
       THEN [cache |-> without(entries, key), access_order |-> remove(order, key),
             returned |-> None]
       ELSE [cache |-> entries, access_order |-> Append(remove(order, key), key),
             returned |-> <<entries[key].response>>]
  ELSE [cache |-> entries, access_order |-> order, returned |-> None]

evict_newest(entries, order, key, size) ==
  IF Cardinality(DOMAIN entries) >= size /\ key \notin DOMAIN entries /\ order # <<>>
  THEN [cache |-> without(entries, order[Len(order)]),
        access_order |-> SubSeq(order, 1, Len(order) - 1),
        evicted |-> <<order[Len(order)]>>]
  ELSE [cache |-> entries, access_order |-> order, evicted |-> None]

\* the first part of ResponseCache.set: the removal of the least recently
\* used key when the cache is full and the key is new
evict(entries, order, key, size) ==
  IF Cardinality(DOMAIN entries) >= size /\ key \notin DOMAIN entries /\ order # <<>>
  THEN [cache |-> without(entries, order[1]), access_order |-> Tail(order),
        evicted |-> <<order[1]>>]
  ELSE [cache |-> entries, access_order |-> order, evicted |-> None]

\* ResponseCache.set at time now
cache_set(entries, order, key, response, now, size) ==
  [cache |-> with(evict(entries, order, key, size).cache, key,
                  [timestamp |-> now, response |-> response]),
   access_order |-> Append(remove(evict(entries, order, key, size).access_order, key), key),
   evicted |-> evict(entries, order, key, size).evicted]

\* the keys of the cache; the one set or hit least recently comes first
least_recent(entries, used) ==
  IF \E i \in 1..Len(used) : used[i] \in DOMAIN entries
  THEN <<used[CHOOSE i \in 1..Len(used) :
                 used[i] \in DOMAIN entries
                 /\ \A h \in 1..(i - 1) : used[h] \notin DOMAIN entries]>>
  ELSE None

no_key == [endpoint |-> "", text |-> "", preview |-> ""]

no_cache_op ==
  [op |-> "none", key |-> no_key, returned |-> None, evicted |-> None,
   was_full |-> FALSE, was_new |-> FALSE, lru |-> None]

\* ResponseCache.__init__
cache_init(size) ==
  /\ max_size = size
  /\ cache = <<>>
  /\ access_order = <<>>
  /\ clock = 0
  /\ use_order = <<>>
  /\ cache_op = no_cache_op

-----------------------------------------------------------------------------

no_result ==
  [status |-> "none", format |-> "none", data |-> <<>>, transaction_count |-> 0,
   validation_errors |-> <<>>]

no_table_json ==
  [opening_balance |-> 0, closing_balance |-> 0, transaction_count |-> 0,
   total_debits |-> 0, total_credits |-> 0, transactions |-> <<>>]

no_post ==
  [transactions |-> <<>>, issues |-> <<>>, fixes_applied |-> <<>>, transaction_count |-> 0]

\* no operation on a response has run yet
bank_init(responses) ==
  /\ vlm_response \in responses
  /\ pc = "idle"
  /\ statement = BankStatement(<<>>)
  /\ validation_errors = <<>>
  /\ fixed = BankStatement(<<>>)
  /\ reparsed = BankStatement(<<>>)
  /\ result = no_result
  /\ table_json = no_table_json
  /\ post = no_post
  /\ lc_statement = lc_BankStatement(<<>>)
  /\ lc_result = lc_BankStatement(<<>>)
  /\ manual = [standard |-> [raised |-> FALSE, statement |-> lc_BankStatement(<<>>)],
               optimized |-> [raised |-> FALSE, statement |-> lc_BankStatement(<<>>)]]

Init ==
  /\ bank_init(TextResponses \cup SpanResponses \cup JsonResponses
               \cup LangChainResponses \cup ManualResponses)
  /\ llm_init([name \in ProviderNames |-> TRUE])
  /\ cache_init(1)

\* parse_bank_statement_to_csv: the statement BankStatementParser.parse
\* returns
Parse ==
  /\ pc = "idle"
  /\ vlm_response.kind \in {"json", "text"}
  /\ statement' = parse_bank_statement_to_csv(vlm_response).bank_statement
  /\ pc' = "parsed"
  /\ UNCHANGED <<vlm_response, validation_errors, fixed, reparsed, result, table_json, post, lc_statement, lc_result, manual>>
  /\ UNCHANGED <<llm_vars, cache_vars>>

\* UnifiedBankExtractor._validate_balances on the parsed statement
ValidateBalances ==
  /\ pc = "parsed"
  /\ validation_errors' = _validate_balances(statement.transactions)
  /\ pc' = "validated"
  /\ UNCHANGED <<vlm_response, statement, fixed, reparsed, result, table_json, post, lc_statement, lc_result, manual>>
  /\ UNCHANGED <<llm_vars, cache_vars>>

\* UnifiedBankExtractor._fix_common_issues on the parsed statement
FixCommonIssues ==
  /\ pc = "validated"
  /\ fixed' = _fix_common_issues(statement, validation_errors)
  /\ pc' = "fixed"
  /\ UNCHANGED <<vlm_response, statement, validation_errors, reparsed, result, table_json, post, lc_statement, lc_result, manual>>
  /\ UNCHANGED <<llm_vars, cache_vars>>

\* UnifiedBankExtractor._json_to_table and the parse of its table
ReparseTable ==
  /\ pc = "parsed"
  /\ reparsed' = parse([kind |-> "text", lines |-> _json_to_table(statement),
                        transactions |-> <<>>, opening_balance |-> 0,
                        decodes |-> FALSE])
  /\ pc' = "reparsed"
  /\ UNCHANGED <<vlm_response, statement, validation_errors, fixed, result, table_json, post, lc_statement, lc_result, manual>>
  /\ UNCHANGED <<llm_vars, cache_vars>>

\* UnifiedBankExtractor.extract_and_validate; statement is the statement
\* its call of parse_bank_statement_to_csv returned
ExtractAndValidate(output_format) ==
  /\ pc = "idle"
  /\ vlm_response.kind \in {"json", "text"}
  /\ statement' = parse_bank_statement_to_csv(vlm_response).bank_statement
  /\ result' = extract_and_validate(vlm_response, output_format)
  /\ pc' = "extracted"
  /\ UNCHANGED <<vlm_response, validation_errors, fixed, reparsed, table_json, post, lc_statement, lc_result, manual>>
  /\ UNCHANGED <<llm_vars, cache_vars>>

ParseBankTableToJson ==
  /\ pc = "idle"
  /\ vlm_response.kind = "text"
  /\ table_json' = parse_bank_table_to_json(vlm_response.lines)
  /\ pc' = "tabled"
  /\ UNCHANGED <<vlm_response, statement, validation_errors, fixed, reparsed, result, post, lc_statement, lc_result, manual>>
  /\ UNCHANGED <<llm_vars, cache_vars>>

ValidateAndFixBankExtraction ==
  /\ pc = "tabled"
  /\ post' = validate_and_fix_bank_extraction(table_json)
  /\ pc' = "post"
  /\ UNCHANGED <<vlm_response, statement, validation_errors, fixed, reparsed, result, table_json, lc_statement, lc_result, manual>>
  /\ UNCHANGED <<llm_vars, cache_vars>>

\* LangChainExtractor.extract_from_table_format
ExtractFromTableFormat ==
  /\ pc = "idle"
  /\ vlm_response.kind = "text"
  /\ lc_result' = extract_from_table_format(vlm_response.lines)
  /\ pc' = "lc_tabled"
  /\ UNCHANGED <<vlm_response, statement, validation_errors, fixed, reparsed, result,
                 table_json, post, lc_statement, manual>>
  /\ UNCHANGED <<llm_vars, cache_vars>>

\* LangChainExtractor.extract_bank_statement; lc_statement is the statement
\* its parser returned
ExtractBankStatement ==
  /\ pc = "idle"
  /\ vlm_response.kind = "langchain"
  /\ lc_statement' = parser_parse(vlm_response)
  /\ lc_result' = extract_bank_statement(vlm_response)
  /\ pc' = "lc_extracted"
  /\ UNCHANGED <<vlm_response, statement, validation_errors, fixed, reparsed, result,
                 table_json, post, manual>>
  /\ UNCHANGED <<llm_vars, cache_vars>>

\* _manual_json_parse of LangChainExtractor and of LangChainExtractorOptimized
\* on the same response; raised tells that the call ended in an exception
ManualJsonParse ==
  /\ pc = "idle"
  /\ vlm_response.kind = "manual"
  /\ manual' = [standard |-> _manual_json_parse(vlm_response.text),
                optimized |-> _manual_json_parse_optimized(vlm_response.text)]
  /\ pc' = "manual_parsed"
  /\ UNCHANGED <<vlm_response, statement, validation_errors, fixed, reparsed, result,
                 table_json, post, lc_statement, lc_result>>
  /\ UNCHANGED <<llm_vars, cache_vars>>

Next ==
  \/ Parse
  \/ ValidateBalances
  \/ FixCommonIssues
  \/ ReparseTable
  \/ \E output_format \in OutputFormats : ExtractAndValidate(output_format)
  \/ ParseBankTableToJson
  \/ ValidateAndFixBankExtraction
  \/ ExtractBankStatement
  \/ ExtractFromTableFormat
  \/ ManualJsonParse

Spec == Init /\ [][Next]_vars

-----------------------------------------------------------------------------
(* UnifiedLLMProvider: generate runs up to its next await in one step      *)

no_call_running == \A t \in Tasks : calls[t].pc \in {"idle", "returned"}

\* generate from its entry to the await of the current provider's call; a
\* provider that is not initialised raises at once and the except block runs
\* the call that returned last, after a step of generate
returned_op(call, op) ==
  IF call.pc = "returned"
  THEN [op |-> "generate", name |-> "",
        status |-> IF call.response.error THEN "error" ELSE "success",
        before |-> call.before]
  ELSE op

GenerateCall(t, allow_fallback) ==
  /\ calls[t].pc \in {"idle", "returned"}
  /\ LET call == [idle_call EXCEPT !.allow_fallback = allow_fallback,
                                   !.before = current_provider] IN
     IF providers[current_provider]
     THEN /\ calls' = [calls EXCEPT ![t] = [call EXCEPT !.pc = "awaiting",
                                                        !.awaited = current_provider]]
          /\ UNCHANGED <<current_provider, provider_op>>
     ELSE LET failed == [call EXCEPT !.attempts = <<attempt(current_provider, TRUE)>>] IN
          /\ calls' = [calls EXCEPT ![t] = handler(failed, current_provider).call]
          /\ current_provider' = handler(failed, current_provider).current_provider
          /\ provider_op' = returned_op(handler(failed, current_provider).call, provider_op)
  /\ UNCHANGED <<providers, last_switch>>
  /\ UNCHANGED <<bank_vars, cache_vars>>

\* the awaited call of the current provider ends: generate returns its
\* response, or the call raised and the except block runs
ProviderCallEnds(t, ok) ==
  /\ calls[t].pc = "awaiting"
  /\ LET call == [calls[t] EXCEPT !.attempts = Append(@, attempt(calls[t].awaited, ~ok))] IN
     IF ok
     THEN /\ calls' = [calls EXCEPT ![t] = [call EXCEPT !.pc = "returned", !.awaited = "",
                                 !.response = provider_response(calls[t].awaited)]]
          /\ UNCHANGED current_provider
     ELSE /\ calls' = [calls EXCEPT ![t] = handler(call, current_provider).call]
          /\ current_provider' = handler(call, current_provider).current_provider
  /\ provider_op' = returned_op(calls'[t], provider_op)
  /\ UNCHANGED <<providers, last_switch>>
  /\ UNCHANGED <<bank_vars, cache_vars>>

\* the awaited local call of the fallback ends: generate restores the
\* provider and returns the marked response, or the call raised and generate
\* returns the error response
FallbackCallEnds(t, ok) ==
  /\ calls[t].pc = "fallback"
  /\ LET call == [calls[t] EXCEPT !.attempts = Append(@, attempt("local", ~ok))] IN
     IF ok
     THEN /\ calls' = [calls EXCEPT ![t] = [call EXCEPT !.pc = "returned", !.awaited = "",
                         !.response = fallback_response(_generate_local,
                                                        call.original_provider)]]
          /\ current_provider' = calls[t].original_provider
     ELSE /\ calls' = [calls EXCEPT ![t] = [call EXCEPT !.pc = "returned", !.awaited = "",
                         !.response = error_response(current_provider)]]
          /\ UNCHANGED current_provider
  /\ provider_op' = returned_op(calls'[t], provider_op)
  /\ UNCHANGED <<providers, last_switch>>
  /\ UNCHANGED <<bank_vars, cache_vars>>

SwitchProvider(provider_name) ==
  /\ current_provider' = switch_provider(provider_name, current_provider).current_provider
  /\ provider_op' = [op |-> "switch_provider", name |-> provider_name,
                     status |-> switch_provider(provider_name, current_provider).status,
                     before |-> current_provider]
  /\ last_switch' = IF switch_provider(provider_name, current_provider).status = "success"
                    THEN provider_name ELSE last_switch
  /\ UNCHANGED <<providers, calls>>
  /\ UNCHANGED <<bank_vars, cache_vars>>

GetAllProviders ==
  /\ current_provider' = get_all_providers(current_provider).current_provider
  /\ provider_op' = [op |-> "get_all_providers", name |-> "", status |-> "success",
                     before |-> current_provider]
  /\ UNCHANGED <<providers, calls, last_switch>>
  /\ UNCHANGED <<bank_vars, cache_vars>>

idle_response == [kind |-> "langchain", transactions |-> <<>>]

ProviderInit ==
  /\ bank_init({idle_response})
  /\ \E available \in [ProviderNames -> BOOLEAN] : llm_init(available)
  /\ cache_init(1)

\* a sequential run: one caller, every call returns before the next begins
ProviderNext ==
  \/ \E allow_fallback \in BOOLEAN : no_call_running /\ GenerateCall(1, allow_fallback)
  \/ \E ok \in BOOLEAN : ProviderCallEnds(1, ok)
  \/ \E ok \in BOOLEAN : FallbackCallEnds(1, ok)
  \/ \E provider_name \in SwitchNames : no_call_running /\ SwitchProvider(provider_name)
  \/ no_call_running /\ GetAllProviders

ProviderSpec == ProviderInit /\ [][ProviderNext]_vars

\* concurrent callers on one event loop: the steps of the calls interleave
ConcurrentNext ==
  \/ \E t \in Tasks, allow_fallback \in BOOLEAN : GenerateCall(t, allow_fallback)
  \/ \E t \in Tasks, ok \in BOOLEAN : ProviderCallEnds(t, ok)
  \/ \E t \in Tasks, ok \in BOOLEAN : FallbackCallEnds(t, ok)
  \/ \E provider_name \in SwitchNames : SwitchProvider(provider_name)
  \/ GetAllProviders

ConcurrentSpec == ProviderInit /\ [][ConcurrentNext]_vars

-----------------------------------------------------------------------------
(* ResponseCache                                                           *)

\* what the operation found: was the cache full, was the key new, which
\* cached key had been set or hit least recently
op_found(op, key) ==
  [no_cache_op EXCEPT !.op = op, !.key = key,
                      !.was_full = Cardinality(DOMAIN cache) >= max_size,
                      !.was_new = key \notin DOMAIN cache,
                      !.lru = least_recent(cache, use_order)]

CacheGet(request) ==
  LET key == _generate_key(request) IN
  /\ cache' = cache_get(cache, access_order, key, clock).cache
  /\ access_order' = cache_get(cache, access_order, key, clock).access_order
  /\ use_order' = IF cache_get(cache, access_order, key, clock).returned # None
                  THEN Append(remove(use_order, key), key) ELSE use_order
  /\ cache_op' = [op_found("get", key) EXCEPT
                    !.returned = cache_get(cache, access_order, key, clock).returned]
  /\ UNCHANGED <<max_size, clock>>
  /\ UNCHANGED <<bank_vars, llm_vars>>

CacheSet(request, response) ==
  LET key == _generate_key(request) IN
  /\ cache' = cache_set(cache, access_order, key, response, clock, max_size).cache
  /\ access_order' =
       cache_set(cache, access_order, key, response, clock, max_size).access_order
  /\ use_order' = Append(remove(use_order, key), key)
  /\ cache_op' = [op_found("set", key) EXCEPT
       !.evicted = cache_set(cache, access_order, key, response, clock, max_size).evicted]
  /\ UNCHANGED <<max_size, clock>>
  /\ UNCHANGED <<bank_vars, llm_vars>>

CacheClear ==
  /\ cache' = <<>>
  /\ access_order' = <<>>
  /\ cache_op' = op_found("clear", no_key)
  /\ UNCHANGED <<max_size, clock, use_order>>
  /\ UNCHANGED <<bank_vars, llm_vars>>

\* time.time() moves on between two operations
TimePasses ==
  /\ clock < MaxClock
  /\ clock' = clock + 1
  /\ UNCHANGED <<max_size, cache, access_order, use_order, cache_op>>
  /\ UNCHANGED <<bank_vars, llm_vars>>

CacheSizes == {1, 2}

CacheInit ==
  /\ bank_init({idle_response})
  /\ llm_init([name \in ProviderNames |-> TRUE])
  /\ \E size \in CacheSizes : cache_init(size)

CacheNext ==
  \/ \E request \in CacheRequests : CacheGet(request)
  \/ \E request \in CacheRequests, response \in CacheResponses : CacheSet(request, response)
  \/ CacheClear
  \/ TimePasses

CacheSpec == CacheInit /\ [][CacheNext]_vars

----------------------------------------------------------------------------
(* Properties                                                              *)

has_statement == pc \in {"parsed", "validated", "fixed", "reparsed", "extracted"}
returned_json == pc = "extracted" /\ result.format = "json"

exclusive(ts) == \A i \in 1..Len(ts) : ts[i].debit = 0 \/ ts[i].credit = 0

\* C1: no transaction of the statement the v3 parser returns, and none of
\* the statement extract_and_validate returns, has both debit and credit
\* non-zero.
C1_MutualExclusivity ==
  /\ has_statement => exclusive(statement.transactions)
  /\ returned_json => exclusive(result.data.transactions)

\* the lines parse_bank_table_to_json emits a transaction for, in order
emitted_rows(lines) == SelectSeq(lines, LAMBDA l : table_json_line(l, <<>>) # <<>>)

row_amount(line) ==
  LET parts == trim_border(stripped_parts(line))
  IN  IF amount_idx(parts) < 0 THEN 0
      ELSE float(remove_chars(parts[amount_idx(parts) + 1], {","})).val

row_balance(line) ==
  LET parts == trim_border(stripped_parts(line))
  IN  float(balance_clean(parts[balance_idx(parts) + 1])).val

row_description(line) == trim_border(stripped_parts(line))[2]

has_table_json == pc \in {"tabled", "post"}

\* C2: in parse_bank_table_to_json a row with a positive amount that follows
\* an emitted transaction is emitted as a credit of that amount when the
\* balance rose by the amount and as a debit of that amount when the balance
\* fell by it, whatever its description says.
C2_BalanceDecides ==
  has_table_json =>
    LET ts == table_json.transactions
        rows == emitted_rows(vlm_response.lines)
    IN  /\ Len(rows) = Len(ts)
        /\ \A k \in 2..Len(ts) :
             LET amount == row_amount(rows[k])
                 delta == row_balance(rows[k]) - ts[k - 1].balance
             IN  amount > 0 =>
                   /\ abs(delta - amount) < 1 => ts[k].credit = amount /\ ts[k].debit = 0
                   /\ abs(delta + amount) < 1 => ts[k].debit = amount /\ ts[k].credit = 0

\* a row the balance made a debit although its description names a deposit
C2_Witness ==
  /\ pc = "tabled"
  /\ \E k \in 2..Len(table_json.transactions) :
       LET row == emitted_rows(vlm_response.lines)[k]
       IN  /\ row_amount(row) > 0
           /\ row_balance(row) - table_json.transactions[k - 1].balance = 0 - row_amount(row)
           /\ is_credit_description(row_description(row))
           /\ table_json.transactions[k].debit = row_amount(row)

totals_consistent(st) ==
  /\ st.total_debits = sum_field(st.transactions, "debit")
  /\ st.total_credits = sum_field(st.transactions, "credit")

\* C3: in the statement parse returns and in the json data of
\* extract_and_validate, total_debits is the sum of the debits and
\* total_credits the sum of the credits of the returned transactions.
C3_TotalsConsistency ==
  /\ has_statement => totals_consistent(statement)
  /\ returned_json => totals_consistent(result.data)

\* the keyword contradictions of a statement, counted per kind
contradictions(ts) ==
  Cardinality({i \in 1..Len(ts) :
                 contains(lower(ts[i].description), k_direct_credit) /\ ts[i].debit > 0})
  + Cardinality({i \in 1..Len(ts) :
                   contains(lower(ts[i].description), k_transfer_to) /\ ts[i].credit > 0})

columns_exchanged(before, after) ==
  /\ Len(after) = Len(before)
  /\ \A i \in 1..Len(before) :
       after[i].debit = before[i].credit /\ after[i].credit = before[i].debit

columns_kept(before, after) ==
  /\ Len(after) = Len(before)
  /\ \A i \in 1..Len(before) :
       after[i].debit = before[i].debit /\ after[i].credit = before[i].credit

\* C4: _fix_common_issues exchanges debit and credit of every transaction
\* when the keyword contradictions number more than 30% of the
\* transactions, and changes no debit and no credit otherwise.
C4_SwapThreshold ==
  pc = "fixed" =>
    LET before == statement.transactions
    IN  IF 10 * contradictions(before) > 3 * Len(before)
        THEN columns_exchanged(before, fixed.transactions)
        ELSE columns_kept(before, fixed.transactions)

\* a ten-row statement one contradiction above the threshold, exchanged
C4_Witness ==
  /\ pc = "fixed"
  /\ Len(statement.transactions) = 10
  /\ contradictions(statement.transactions) = 4
  /\ \E i \in 1..10 : fixed.transactions[i].debit # statement.transactions[i].debit

\* C5: with discontinuities found and the swap threshold not exceeded,
\* extract_and_validate reports the discontinuities and returns debit,
\* credit and balance of every transaction as extracted.
C5_FieldsLeftAsExtracted ==
  (returned_json /\ _validate_balances(statement.transactions) # <<>>
     /\ ~swap_detected(statement.transactions)) =>
    /\ result.validation_errors # <<>>
    /\ Len(result.data.transactions) = Len(statement.transactions)
    /\ \A i \in 1..Len(statement.transactions) :
         /\ result.data.transactions[i].debit = statement.transactions[i].debit
         /\ result.data.transactions[i].credit = statement.transactions[i].credit
         /\ result.data.transactions[i].balance = statement.transactions[i].balance

\* the Python indices i >= 1 at which the running balance formula fails
discontinuities(ts) ==
  {i \in 1..(Len(ts) - 1) :
     abs(ts[i].balance + ts[i + 1].credit - ts[i + 1].debit - ts[i + 1].balance) > 1}

increasing(q) == \A a, b \in 1..Len(q) : a < b => q[a] < q[b]

\* the transactions step 3 of the post-processor walks
after_pop(ts) ==
  IF ts # <<>> /\ contains(lower(ts[1].description), k_opening_balance) THEN Tail(ts) ELSE ts

same_amounts(before, after) ==
  /\ Len(after) = Len(before)
  /\ \A i \in 1..Len(before) :
       /\ after[i].debit = before[i].debit
       /\ after[i].credit = before[i].credit
       /\ after[i].balance = before[i].balance

\* C6: _validate_balances and step 3 of validate_and_fix_bank_extraction
\* record a discontinuity for exactly the indices i >= 1 with
\* |balance[i-1] + credit[i] - debit[i] - balance[i]| > 0.01, in increasing
\* order, and change no transaction.
C6_ExactDiscontinuities ==
  /\ pc \in {"validated", "fixed"} =>
       LET idx == [e \in 1..Len(validation_errors) |-> validation_errors[e].index]
       IN  /\ increasing(idx)
           /\ {idx[e] : e \in 1..Len(idx)} = discontinuities(statement.transactions)
           /\ statement = parse(vlm_response)
  /\ pc = "post" =>
       LET found == SelectSeq(post.issues, LAMBDA x : x.kind = "discontinuity")
           at == [e \in 1..Len(found) |-> found[e].at]
           ts == after_pop(table_json.transactions)
       IN  /\ increasing(at)
           /\ {at[e] - 1 : e \in 1..Len(at)} = discontinuities(ts)
           /\ same_amounts(ts, post.transactions)

\* a statement with a discontinuity at some pairs and none at others
C6_Witness ==
  /\ pc = "validated"
  /\ validation_errors # <<>>
  /\ Len(validation_errors) < Len(statement.transactions) - 1

same_tuples(a, b) ==
  /\ Len(a) = Len(b)
  /\ \A i \in 1..Len(a) :
       /\ a[i].date = b[i].date /\ a[i].debit = b[i].debit
       /\ a[i].credit = b[i].credit /\ a[i].balance = b[i].balance

\* C7: parsing the table _json_to_table makes of a parsed statement gives
\* the same number of transactions with the same date, debit, credit and
\* balance at every position.
C7_RoundTrip ==
  pc = "reparsed" => same_tuples(statement.transactions, reparsed.transactions)

\* C8: every transaction extract_and_validate returns has debit, credit and
\* balance that are not negative.
C8_NonNegative ==
  returned_json =>
    \A i \in 1..Len(result.data.transactions) :
      /\ result.data.transactions[i].debit >= 0
      /\ result.data.transactions[i].credit >= 0
      /\ result.data.transactions[i].balance >= 0

\* C9: when the global swap triggers, the balance of the last transaction
\* after the repair is the balance extracted for the last row, within 0.01.
C9_ClosingBalanceKept ==
  (returned_json /\ _validate_balances(statement.transactions) # <<>>
     /\ swap_detected(statement.transactions)) =>
    LET n == Len(statement.transactions)
    IN  abs(result.data.transactions[n].balance - statement.transactions[n].balance) <= 1

scenario_2_lines == <<table_header, table_rule, row_balance_1750, row_scenario_2>>

is_scenario_2_transaction(t) == t.debit = 85000 /\ t.credit = 0 /\ t.balance = 90000

\* C10: after a row that leaves the balance at 1750.00, the row "05-Apr-25
\* Transfer to xx5330 CommBank app Loan 850.00 900.00" gives one transaction
\* with debit 850.00, credit 0 and balance 900.00.
C10_Scenario2 ==
  (pc = "parsed" /\ vlm_response.kind = "text" /\ vlm_response.lines = scenario_2_lines) =>
    /\ Len(statement.transactions) = 2
    /\ statement.transactions[1].balance = 175000
    /\ is_scenario_2_transaction(statement.transactions[2])

is_scenario_1_transaction(t) ==
  /\ t.date \in {<<"0","4","/","0","4","/","2","0","2","5">>, <<"0","4","-","A","p","r","-","2","5">>}
  /\ t.description = <<"D","i","r","e","c","t"," ","C","r","e","d","i","t"," ","4","0","0","9","3","7"," ","D","B"," ","R","E","S","U","L","T","S">>
  /\ t.debit = 0 /\ t.credit = 175000 /\ t.balance = 175000

\* C11: with no prior balance the row "04-Apr-25 | Direct Credit 400937 DB
\* RESULTS |  | 1,750.00" gives exactly one transaction, dated 04/04/2025 by
\* the v3 parser, with that description, debit 0, credit 1750.00 and balance
\* 1750.00.
C11_Scenario1 ==
  (vlm_response.kind = "text" /\ vlm_response.lines \in scenario_1_texts) =>
    /\ pc = "parsed" =>
         /\ Len(statement.transactions) = 1
         /\ is_scenario_1_transaction(statement.transactions[1])
         /\ statement.transactions[1].date = <<"0","4","/","0","4","/","2","0","2","5">>
    /\ pc = "tabled" =>
         /\ Len(table_json.transactions) = 1
         /\ is_scenario_1_transaction(table_json.transactions[1])

\* the keyword lists as the specification gives them
credit_indicating == credit_terms \o <<<<"i","n","c","o","m","e">>>>
debit_indicating == debit_terms
balance_markers ==
  <<<<"p","r","e","v","i","o","u","s"," ","b","a","l","a","n","c","e">>, <<"o","p","e","n","i","n","g"," ","b","a","l","a","n","c","e">>, <<"c","l","o","s","i","n","g"," ","b","a","l","a","n","c","e">>>>

lc_extracted == pc = "lc_extracted"
is_balance_row(t) == contains(lower(t.description), <<"b","a","l","a","n","c","e">>)

credit_kept(before, after) == after.credit = before.credit /\ ~truthy(after.debit)
debit_kept(before, after) == after.debit = before.debit /\ ~truthy(after.credit)

\* what C12 says of a transaction that had both amounts on entry
tie_broken_by_keywords(before, after) ==
  LET desc_lower == lower(before.description)
  IN  IF any_term(desc_lower, credit_indicating) THEN credit_kept(before, after)
      ELSE IF any_term(desc_lower, debit_indicating) THEN debit_kept(before, after)
      ELSE IF any_term(desc_lower, both_set_terms) THEN credit_kept(before, after)
      ELSE debit_kept(before, after)

\* C12: after _fix_transaction_classifications no transaction has both debit
\* and credit non-zero, and a transaction that had both on entry keeps its
\* credit when the description has a credit-indicating keyword, its debit when
\* it has only debit-indicating ones, and otherwise its credit exactly when
\* 'from', 'received', 'credit' or 'deposit' occurs in the description.
C12_KeywordsBreakTie ==
  lc_extracted =>
    \A i \in 1..Len(lc_statement.transactions) :
      /\ ~(truthy(lc_result.transactions[i].debit) /\ truthy(lc_result.transactions[i].credit))
      /\ (/\ truthy(lc_statement.transactions[i].debit)
          /\ truthy(lc_statement.transactions[i].credit)
          /\ ~is_balance_row(lc_statement.transactions[i]))
         => tie_broken_by_keywords(lc_statement.transactions[i], lc_result.transactions[i])

exactly_one(t) == truthy(t.debit) # truthy(t.credit)
the_amount(t) == IF truthy(t.debit) THEN t.debit ELSE t.credit

\* what C13 says of a transaction that had one amount on entry
keyword_wins(before, after) ==
  LET desc_lower == lower(before.description)
  IN  IF any_term(desc_lower, credit_indicating)
      THEN after.credit = the_amount(before) /\ ~truthy(after.debit)
      ELSE IF any_term(desc_lower, debit_indicating)
      THEN after.debit = the_amount(before) /\ ~truthy(after.credit)
      ELSE after.debit = before.debit /\ after.credit = before.credit

\* C13: _fix_transaction_classifications takes a transaction with exactly one
\* of debit/credit non-zero and no balance marker to credit when its
\* description has a credit-indicating keyword, to debit when it has a
\* debit-indicating keyword and no credit-indicating one, with the amount
\* unchanged, and leaves a transaction without such a keyword as it was.
C13_KeywordWins ==
  lc_extracted =>
    \A i \in 1..Len(lc_statement.transactions) :
      (exactly_one(lc_statement.transactions[i]) /\ ~is_balance_row(lc_statement.transactions[i]))
        => keyword_wins(lc_statement.transactions[i], lc_result.transactions[i])

has_marker(description) == any_term(lower(description), balance_markers)

marker_rows(ts) == {i \in 1..Len(ts) : has_marker(ts[i].description)}
marker_lines(lines) == {i \in 1..Len(lines) : has_marker(lines[i])}

\* C14: a row whose description has 'previous balance', 'opening balance' or
\* 'closing balance' is in the output with no debit, no credit and its balance,
\* wherever it stands and whatever its columns held: in the result of
\* _fix_transaction_classifications, of parse_bank_table_to_json and of
\* BankStatementParser.parse.
C14_BalanceRowsNotTransactions ==
  /\ lc_extracted =>
       \A i \in marker_rows(lc_statement.transactions) :
         /\ ~truthy(lc_result.transactions[i].debit)
         /\ ~truthy(lc_result.transactions[i].credit)
         /\ lc_result.transactions[i].balance = lc_statement.transactions[i].balance
  /\ pc = "tabled" =>
       /\ \A i \in marker_rows(table_json.transactions) :
            table_json.transactions[i].debit = 0 /\ table_json.transactions[i].credit = 0
       /\ Cardinality(marker_rows(table_json.transactions))
            = Cardinality(marker_lines(vlm_response.lines))
  /\ (pc = "parsed" /\ vlm_response.kind = "text") =>
       /\ \A i \in marker_rows(statement.transactions) :
            statement.transactions[i].debit = 0 /\ statement.transactions[i].credit = 0
       /\ Cardinality(marker_rows(statement.transactions))
            = Cardinality(marker_lines(vlm_response.lines))

no_mapping == [f \in {} |-> 0]

\* the transaction a line gives when it is looked at without regard to its
\* position
data_row(line, column_map) == parse_table_line(line, 0, 0 - 2, column_map)

\* the rows emitted when every header line replaces the mapping for the
\* rows after it
RECURSIVE rows_under_headers(_, _, _)
rows_under_headers(lines, k, column_map) ==
  IF k > Len(lines) THEN <<>>
  ELSE IF is_header_line(lines[k])
       THEN rows_under_headers(lines, k + 1, _analyze_header(lines[k]))
       ELSE data_row(lines[k], column_map) \o rows_under_headers(lines, k + 1, column_map)

has_header(lines) == find_header_idx(lines) >= 0

\* every header line is followed by its separator line
headers_ruled(lines) ==
  \A k \in 1..Len(lines) :
    is_header_line(lines[k]) => (k < Len(lines) /\ lines[k + 1] = table_rule)

\* C15: in a text with header lines (each followed by its separator line)
\* every header line replaces the column mapping for the rows that follow it,
\* and the data rows before a header line are emitted too: the parsed
\* transactions are those of a pass over the lines that starts with no mapping
\* and takes a new mapping at each header line.
C15_HeaderResetsMapping ==
  (/\ pc = "parsed" /\ vlm_response.kind = "text"
   /\ has_header(vlm_response.lines) /\ headers_ruled(vlm_response.lines)) =>
    statement.transactions = rows_under_headers(vlm_response.lines, 1, no_mapping)

data_rows(lines) ==
  {k \in 1..Len(lines) : data_row(lines[k], column_map_of(lines)) # <<>>}

\* lines that start with a date and have cells between pipes
unbordered_rows(lines) ==
  {k \in 1..Len(lines) :
     /\ date_search(strip(lines[k])).start = 1
     /\ Len(stripped_parts(lines[k])) >= 5}

\* C16: a table-format response gives one transaction per data row whatever
\* the row's position: a header directly followed by N data rows gives N
\* transactions, and without a header the first line is parsed like the
\* others.
C16_OnePerDataRow ==
  /\ (pc = "parsed" /\ vlm_response.kind = "text") =>
       Len(statement.transactions) = Cardinality(data_rows(vlm_response.lines))
  /\ pc = "lc_tabled" =>
       Len(lc_result.transactions) = Cardinality(unbordered_rows(vlm_response.lines))

structured_ok == vlm_response.kind = "json"
span_ok == json_match(vlm_response.lines) /\ vlm_response.decodes
table_stage == parse_table_format_v3(vlm_response.lines)

----------------------------------------------------------------------------
\* C18: given a response in the shape of JSON that is wrapped in code block
\* markers or has trailing commas before '}' and ']' (or both), and whose
\* total_debits or total_credits is an arithmetic expression that has a
\* value, _manual_json_parse of either extractor returns without raising a
\* statement that holds every listed transaction and whose total is the
\* value of the expression.
manual_repaired(r) ==
  /\ ~r.raised
  /\ r.statement.transactions = vlm_response.listed
  /\ (vlm_response.field = f_total_debits => r.statement.total_debits = vlm_response.value)
  /\ (vlm_response.field = f_total_credits => r.statement.total_credits = vlm_response.value)

----------------------------------------------------------------------------
\* C19: in the statement assembled from a table, by parse_bank_table_to_json
\* and by BankStatementParser.parse, opening_balance is the balance of the
\* first transaction when that transaction is a 'previous balance' or
\* 'opening balance' row and 0 otherwise, and closing_balance is the balance
\* of the last transaction.
opening_marker_row(t) ==
  any_term(lower(t.description), <<k_previous_balance, k_opening_balance>>)

balances_from(ts, opening, closing) ==
  ts # <<>> =>
    /\ opening = IF opening_marker_row(ts[1]) THEN ts[1].balance ELSE 0
    /\ closing = ts[Len(ts)].balance

C19_OpeningClosingBalance ==
  /\ pc = "tabled" =>
       balances_from(table_json.transactions, table_json.opening_balance,
                     table_json.closing_balance)
  /\ (pc = "parsed" /\ vlm_response.kind = "text" /\ ~json_match(vlm_response.lines)) =>
       balances_from(statement.transactions, statement.opening_balance,
                     statement.closing_balance)

\* the two halves of C19, each alone
C19_TableJsonBalances ==
  pc = "tabled" =>
    balances_from(table_json.transactions, table_json.opening_balance,
                  table_json.closing_balance)

C19_ParseBalances ==
  (pc = "parsed" /\ vlm_response.kind = "text" /\ ~json_match(vlm_response.lines)) =>
    balances_from(statement.transactions, statement.opening_balance,
                  statement.closing_balance)

----------------------------------------------------------------------------
\* C20: a reference number (four or more digits without a decimal point,
\* between the description and the amounts) is never taken as the amount of
\* its row, and debit and credit come from amount tokens only: in the result
\* of parse_bank_table_to_json and of the whitespace rows of
\* BankStatementParser.parse.  The rows with the reference 123456 have the
\* amounts 50.00 and 100.00.
has_reference(lines) == \E i \in 1..Len(lines) : contains(lines[i], <<" ","1","2","3","4","5","6"," ">>)

true_amounts == {0, 5000, 10000}

from_amount_tokens(ts) ==
  \A i \in 1..Len(ts) : ts[i].debit \in true_amounts /\ ts[i].credit \in true_amounts

C20_ReferenceNeverAmount ==
  /\ (pc = "tabled" /\ has_reference(vlm_response.lines))
       => from_amount_tokens(table_json.transactions)
  /\ (pc = "parsed" /\ vlm_response.kind = "text" /\ has_reference(vlm_response.lines))
       => from_amount_tokens(statement.transactions)

\* the half of C20 that is about parse_bank_table_to_json
C20_TableJsonReference ==
  (pc = "tabled" /\ has_reference(vlm_response.lines))
    => from_amount_tokens(table_json.transactions)

----------------------------------------------------------------------------
\* C21: a parenthesized amount is a negative number: every row of
\* parse_bank_table_to_json whose balance cell is '(123.45)' is in the output
\* with the balance -123.45, the value of that cell and of no other column.
paren_lines(lines) == {i \in 1..Len(lines) : contains(lines[i], <<"|"," ","(","1","2","3",".","4","5",")"," ","|">>)}

C21_ParenthesizedBalance ==
  pc = "tabled" =>
    Cardinality({i \in 1..Len(table_json.transactions) :
                   table_json.transactions[i].balance = 0 - 12345})
      = Cardinality(paren_lines(vlm_response.lines))

----------------------------------------------------------------------------
\* C22: a row is not dropped because its date cannot be normalized: a row
\* with a description and amounts whose date is in no recognised format
\* ('Oct 14', '04-Apr-25') is in the statement of the v3 parser with the date
\* as it was written.
raw_date_kept(d) ==
  /\ Len(statement.transactions) = 1
  /\ statement.transactions[1].date = d

C22_RawDateRetained ==
  \A d \in raw_dates :
    (pc = "parsed" /\ vlm_response.kind = "text" /\ vlm_response.lines = raw_date_text(d))
      => raw_date_kept(d)

\* C22 for the one date that the date pattern of the row scan accepts
C22_PatternDateRetained ==
  (pc = "parsed" /\ vlm_response.kind = "text"
   /\ vlm_response.lines = raw_date_text(<<"9","9","/","9","9","/","2","0","2","4">>))
    => raw_date_kept(<<"9","9","/","9","9","/","2","0","2","4">>)

----------------------------------------------------------------------------
\* C23: for every transaction whose description holds a numeric code in
\* braces {N}, validate_and_fix_bank_extraction sets reference to N and
\* leaves the description without the braces and the code and without
\* leading or trailing white space; a transaction without such a code keeps
\* its description and gets no reference.
brace_fixed(c) ==
  /\ Len(post.transactions) = 1
  /\ post.transactions[1].reference = c.reference
  /\ post.transactions[1].description = c.left

C23_ReferenceExtracted ==
  \A c \in brace_cases :
    (pc = "post" /\ vlm_response.lines = brace_text(c)) => brace_fixed(c)

\* the half of C23 that is about the descriptions with a code
C23_CodeRemoved ==
  \A c \in brace_cases :
    (pc = "post" /\ vlm_response.lines = brace_text(c) /\ c.reference # <<>>)
      => brace_fixed(c)

----------------------------------------------------------------------------
\* C24: for the same response, extract_and_validate reports the same
\* transactions (their number and the debit, credit and balance of each)
\* whatever the output format, also when the repair changed the statement:
\* the csv rows and the table lines are those of the statement that the
\* 'json' format returns.
json_statement == extract_and_validate(vlm_response, "json").data

same_as_json ==
  /\ result.transaction_count = Len(json_statement.transactions)
  /\ result.format = "csv" => result.data.rows = to_csv(json_statement).rows
  /\ result.format = "table" => result.data = _json_to_table(json_statement)

C24_FormatsAgree == pc = "extracted" => same_as_json

\* C24 for the responses that the repair leaves alone
C24_FormatsAgreeUnrepaired ==
  (pc = "extracted" /\ _validate_balances(statement.transactions) = <<>>) => same_as_json

\* C24 for the 'table' format alone
C24_TableAgrees ==
  (pc = "extracted" /\ result.format = "table") => same_as_json

-----------------------------------------------------------------------------
(* UnifiedLLMProvider: properties                                          *)

openai_failed(call) ==
  /\ call.pc = "returned"
  /\ call.before = "openai"
  /\ call.attempts # <<>>
  /\ call.attempts[1] = attempt("openai", TRUE)

local_responded(call) ==
  Len(call.attempts) = 2 /\ call.attempts[2] = attempt("local", FALSE)

C25_FailedFallback ==
  \A t \in Tasks :
    (openai_failed(calls[t]) /\ calls[t].allow_fallback /\ no_call_running
       /\ provider_op.op = "generate" /\ ~local_responded(calls[t]))
    => /\ calls[t].response = error_response("local")
       /\ current_provider = "local"

first_call_failed(call) ==
  call.pc = "returned" /\ call.attempts # <<>> /\ call.attempts[1].failed

\* C26: when generate was called without allow_fallback and the call of the
\* current provider failed, generate ended by raising the provider's
\* exception.
C26_ExceptionPropagates ==
  \A t \in Tasks :
    (first_call_failed(calls[t]) /\ ~calls[t].allow_fallback) => calls[t].raised

\* what generate does in that case: it returns a response with empty
\* content and the error set, naming the current provider
C26_ErrorResponseReturned ==
  \A t \in Tasks :
    (first_call_failed(calls[t]) /\ ~calls[t].allow_fallback)
    => /\ ~calls[t].raised
       /\ calls[t].response = error_response(calls[t].before)

\* C27: in a sequential run, after a switch_provider call that returned
\* status "success" current_provider is the name it was given; after every
\* other call (a switch_provider with an unknown or unavailable name, which
\* returns "error", every generate, get_all_providers) current_provider is
\* what it was before the call.
C27_OnlySwitchChanges ==
  (no_call_running /\ provider_op.op # "none")
  => /\ (provider_op.op = "switch_provider"
           /\ (provider_op.name \notin ProviderNames \/ ~providers[provider_op.name]))
        => provider_op.status = "error"
     /\ IF provider_op.op = "switch_provider" /\ provider_op.status = "success"
        THEN current_provider = provider_op.name
        ELSE current_provider = provider_op.before

\* a fallback whose local call failed too
failed_fallback(call) ==
  /\ call.pc = "returned"
  /\ call.original_provider # ""
  /\ call.attempts[Len(call.attempts)] = attempt("local", TRUE)

\* the same for every call but a generate whose fallback failed too
C27_ExceptFailedFallback ==
  (no_call_running /\ provider_op.op # "none"
     /\ ~(provider_op.op = "generate" /\ \E t \in Tasks : failed_fallback(calls[t])))
  => /\ (provider_op.op = "switch_provider"
           /\ (provider_op.name \notin ProviderNames \/ ~providers[provider_op.name]))
        => provider_op.status = "error"
     /\ IF provider_op.op = "switch_provider" /\ provider_op.status = "success"
        THEN current_provider = provider_op.name
        ELSE current_provider = provider_op.before

\* C28: under every interleaving of generate and switch_provider calls,
\* current_provider is the provider the last successful switch_provider
\* chose, "local" before any.
C28_CurrentIsLastSwitch == current_provider = last_switch

\* no call of generate begins on a provider other than the one the last
\* successful switch_provider chose
C28_NoCallOnTemporaryLocal ==
  [][\A t \in Tasks :
       (calls[t].pc \in {"idle", "returned"} /\ calls'[t].pc = "awaiting")
       => calls'[t].awaited = last_switch]_vars

\* a generate that returns from a fallback that succeeded leaves
\* current_provider as the last successful switch_provider chose
C28_SwitchNotOverwritten ==
  [][\A t \in Tasks :
       (calls[t].pc = "fallback" /\ calls'[t].pc = "returned"
          /\ ~calls'[t].response.error /\ current_provider = last_switch)
       => current_provider' = last_switch']_vars

-----------------------------------------------------------------------------
(* _fix_transaction_classifications applied twice                          *)

same_sides(once, twice) ==
  \A i \in 1..Len(once.transactions) :
    /\ twice.transactions[i].debit = once.transactions[i].debit
    /\ twice.transactions[i].credit = once.transactions[i].credit

\* C29: _fix_transaction_classifications applied to its own output changes
\* no debit and no credit of any transaction.
C29_Idempotent ==
  pc = "lc_extracted"
  => same_sides(_fix_transaction_classifications(lc_statement),
                _fix_transaction_classifications(
                  _fix_transaction_classifications(lc_statement)))

\* the same for the transactions that do not enter with both debit and
\* credit set
C29_IdempotentOneSide ==
  pc = "lc_extracted"
  => \A i \in 1..Len(lc_statement.transactions) :
       ~(truthy(lc_statement.transactions[i].debit)
           /\ truthy(lc_statement.transactions[i].credit))
       => LET once == fix_classification(lc_statement.transactions[i])
              twice == fix_classification(once)
          IN  twice.debit = once.debit /\ twice.credit = once.credit

-----------------------------------------------------------------------------
(* ResponseCache: properties                                               *)

\* C30: after any sequence of get, set and clear (and of time passing) on a
\* ResponseCache with max_size >= 1, the cache holds at most max_size
\* entries and access_order lists the keys of the cache, each once; a set
\* that evicted an entry found the cache full and its key new, and evicted
\* the cached key that had been set or hit least recently.
C30_CacheInvariant ==
  /\ Cardinality(DOMAIN cache) <= max_size
  /\ {access_order[i] : i \in 1..Len(access_order)} = DOMAIN cache
  /\ \A i, j \in 1..Len(access_order) : access_order[i] = access_order[j] => i = j
  /\ (cache_op.op = "set" /\ cache_op.evicted # None)
     => /\ cache_op.was_full
        /\ cache_op.was_new
        /\ cache_op.evicted = cache_op.lru
        /\ cache_op.evicted[1] \notin DOMAIN cache
  /\ (cache_op.op = "set" /\ cache_op.evicted = None)
     => ~(cache_op.was_full /\ cache_op.was_new)

\* a set of a new key evicted the least recently used key of a full cache
\* of two entries
C30_Witness ==
  /\ cache_op.op = "set"
  /\ cache_op.evicted # None
  /\ max_size = 2
  /\ Len(access_order) = 2
  /\ Len(use_order) = 3
  /\ use_order[1] = cache_op.evicted[1]
  /\ _generate_key([endpoint |-> "/generate", text |-> "b", preview |-> "p", rest |-> "x"])
       = cache_op.evicted[1]
  /\ DOMAIN cache = {[endpoint |-> "/generate", text |-> t, preview |-> "p"] : t \in {"a", "c"}}
  /\ cache_op.key.text = "c"

====
